---- MODULE Spec2Model ----
(***************************************************************************)
(* Conversation context-window assembly and streaming-response pipeline   *)
(* of khoj: the ThreadedGenerator relay, the short-circuit of converse    *)
(* truncate_messages, generate_chatml_messages_with_context and           *)
(* save_to_conversation_log, each translated from the Python source.      *)
(*                                                                        *)
(* Text is a sequence of one-character strings.                           *)
(***************************************************************************)
EXTENDS Integers, Sequences, FiniteSets, TLC

VARIABLES
    \* ---- ThreadedGenerator (processor/conversation/utils.py:32-69)
    queue,               \* self.queue: FIFO of items put and not yet got
    response,            \* self.response: the accumulated text
    compiled_references, \* self.compiled_references
    online_results,      \* self.online_results
    completion_func,     \* TRUE iff a completion callback was supplied
    producer,            \* position of the producer thread
    pending,             \* the data argument of the send() in progress
    close_calls,         \* number of close() calls started
    sent,                \* history: the chunks passed to send(), in call order
    consumer,            \* position of the consuming thread
    received,            \* history: the items __next__ returned, in order
    callbacks,           \* history: the chat_response of each callback call
    \* ---- converse (processor/conversation/openai/gpt.py:107-187)
    conversation_commands, \* the conversation_commands argument, a list
    references,            \* the references argument, a list of notes
    conv_online_results,   \* the online_results argument
    conv_completion_func,  \* TRUE iff converse got a completion_func
    conv_pc,               \* position of the call of converse
    conv_callbacks,        \* history: chat_response of each completion_func call
    model_calls,           \* history: calls of chat_completion_with_backoff
    conv_returned,         \* what converse returned
    caller_received,       \* history: what the caller got from iterating it
    \* ---- truncate_messages (processor/conversation/utils.py:187-257)
    messages,              \* the messages list, newest message first
    max_prompt_size,       \* the max_prompt_size argument
    system_message,        \* the extracted system message, or NoMessage
    system_message_tokens, \* its token count
    tokens,                \* token count of the messages list
    trunc_pc,              \* position of the call of truncate_messages
    result,                \* the returned list
    input_messages,        \* history: the messages argument as passed
    reapplied,             \* history: TRUE iff the argument is a former result
    \* ---- generate_chatml_messages_with_context (utils.py:138-184)
    user_message,          \* the user_message argument, a text
    gen_system_message,    \* the system_message argument, a text
    conversation_log,      \* conversation_log["chat"], a list of entries
    model_name,            \* the model_name argument
    loaded_model,          \* n_ctx() of the loaded_model argument, 0 for None
    override,              \* history: the max_prompt_size argument as passed
    gen_max_prompt_size,   \* the local max_prompt_size
    lookback_turns,        \* the local lookback_turns
    chat_logs,             \* the local chat_logs
    rest_backnforths,      \* the local rest_backnforths
    pair_index,            \* position of the zip iterator of line 166
    gen_messages,          \* the local messages
    truncate_call,         \* the arguments passed to truncate_messages
    gen_pc,                \* position of the call
    gen_returned,          \* the list the function returns
    \* ---- save_to_conversation_log (utils.py:93-126) and the Conversation
    \* ---- rows (database/adapters/__init__.py:594-668, 750-774)
    conversations,         \* the Conversation rows, by id
    next_id,               \* the id of the next row created
    clock,                 \* the time, as updated_at records it
    requests,              \* the chat requests: position, user, id, meta_log
    saves,                 \* history: number of save_conversation calls
    deletes,               \* history: number of deletions
    \* ---- tokenizer resolution of truncate_messages (utils.py:196-219)
    pretrained_tokenizers, \* state.pretrained_tokenizers, by name
    resolvers,             \* the calls: position, arguments, encoder
    next_encoder,          \* the number of the next encoder object made
    tokenizer_loads,       \* history: the names loaded, in order
    \* ---- extract_questions (openai/gpt.py:21-89)
    ext_text,              \* text, the user's message
    ext_response,          \* response of completion_with_backoff
    ext_pc,                \* position of the call
    questions,             \* the list returned
    process_locks, \* the rows of ProcessLock for the operation
    lock_calls, \* the calls of run_with_lock
    next_lock_id, \* primary key of the next row
    lock_time, \* datetime.now in ticks
    \* ---- subscription state (database/adapters/__init__.py:226-270)
    subscription,  \* the Subscription row of the user
    sub_now,       \* datetime.now in days
    sub_reported   \* the state get_user_subscription_state returned last

relayVars == <<queue, response, compiled_references, online_results,
               completion_func, producer, pending, close_calls, sent,
               consumer, received, callbacks>>

converseVars == <<conversation_commands, references, conv_online_results,
                  conv_completion_func, conv_pc, conv_callbacks, model_calls,
                  conv_returned, caller_received>>

truncateVars == <<messages, max_prompt_size, system_message,
                  system_message_tokens, tokens, trunc_pc, result,
                  input_messages, reapplied>>

promptVars == <<user_message, gen_system_message, conversation_log,
                model_name, loaded_model, override, gen_max_prompt_size,
                lookback_turns, chat_logs, rest_backnforths, pair_index,
                gen_messages, truncate_call, gen_pc, gen_returned>>

recordVars == <<conversations, next_id, clock, requests, saves, deletes>>

resolveVars == <<pretrained_tokenizers, resolvers, next_encoder,
                 tokenizer_loads>>

extractVars == <<ext_text, ext_response, ext_pc, questions>>

lockVars == <<process_locks, lock_calls, next_lock_id, lock_time>>

subscriptionVars == <<subscription, sub_now, sub_reported>>

vars ==
    <<relayVars, converseVars, truncateVars, promptVars, recordVars,
      resolveVars, extractVars, lockVars, subscriptionVars>>

\* Variables of the other components, left alone by a component's steps.
notRelayVars ==
    <<converseVars, truncateVars, promptVars, recordVars, resolveVars,
      extractVars, lockVars,
      subscriptionVars>>
notConverseVars ==
    <<relayVars, truncateVars, promptVars, recordVars, resolveVars,
      extractVars, lockVars,
      subscriptionVars>>
notTruncateVars ==
    <<relayVars, converseVars, promptVars, recordVars, resolveVars,
      extractVars, lockVars,
      subscriptionVars>>
notPromptVars ==
    <<relayVars, converseVars, truncateVars, recordVars, resolveVars,
      extractVars, lockVars,
      subscriptionVars>>
notRecordVars ==
    <<relayVars, converseVars, truncateVars, promptVars, resolveVars,
      extractVars, lockVars,
      subscriptionVars>>
notResolveVars ==
    <<relayVars, converseVars, truncateVars, promptVars, recordVars,
      extractVars, lockVars,
      subscriptionVars>>
notExtractVars ==
    <<relayVars, converseVars, truncateVars, promptVars, recordVars,
      resolveVars, lockVars,
      subscriptionVars>>
notBuildVars ==
    <<relayVars, converseVars, recordVars, resolveVars, extractVars,
      lockVars,
      subscriptionVars>>
notLockVars ==
    <<relayVars, converseVars, truncateVars, promptVars, recordVars,
      resolveVars, extractVars,
      subscriptionVars>>
notSubscriptionVars ==
    <<relayVars, converseVars, truncateVars, promptVars, recordVars,
      resolveVars, extractVars, lockVars>>

-----------------------------------------------------------------------------
\* Bounds of the model.
MaxSend == 2      \* send() calls per relay
MaxClose == 2     \* close() calls per relay
MaxText == 4      \* characters of the newest message
MaxHistory == 3   \* chat-history messages passed to truncate_messages
MaxLog == 5       \* entries of a conversation log
MaxConversations == 3  \* Conversation rows ever created
MaxRequests == 2  \* chat requests served
MaxDeletes == 1   \* deletions of conversations
MaxResolvers == 2 \* calls that resolve a tokenizer at the same time
MaxQueries == 2   \* elements of a "queries" list of the model's answer
MaxPairs == 2     \* turns of a log whose prompt is built and truncated
MaxCallers == 2   \* calls of run_with_lock at the same time
MaxTime == 3      \* ticks of the clock of the locks
MaxDays == 16     \* days of the clock of the subscription

\* line 250, timedelta(days=14): the days a trial lasts.
TrialDays == 14
\* line 249, "Trial subscription is valid for 7 days".
DocumentedTrialDays == 7

-----------------------------------------------------------------------------
\* Text helpers.

RECURSIVE Flatten(_)
\* Concatenation of a sequence of texts, in order.
Flatten(ss) ==
    IF ss = <<>> THEN <<>>
    ELSE IF Len(ss) = 1 THEN ss[1]
    ELSE LET half == Len(ss) \div 2
         IN  Flatten(SubSeq(ss, 1, half))
                \o Flatten(SubSeq(ss, half + 1, Len(ss)))

IsPrefix(s, t) == Len(s) <= Len(t) /\ SubSeq(t, 1, Len(s)) = s

Min(a, b) == IF a <= b THEN a ELSE b
Max(a, b) == IF a >= b THEN a ELSE b

\* Characters of a text: a letter, a blank and a line break.
Alphabet == {"a", " ", "\n"}
IsSpace(c) == c \in {" ", "\n"}

\* All texts of at most n characters.
Texts(n) == UNION {[1..k -> Alphabet] : k \in 0..n}

\* seq[::-1]
Reverse(seq) == [i \in 1..Len(seq) |-> seq[Len(seq) + 1 - i]]

\* seq[:n] of Python: a negative n counts from the end.
SliceTo(seq, n) ==
    IF n >= 0 THEN SubSeq(seq, 1, Min(n, Len(seq)))
    ELSE SubSeq(seq, 1, Max(0, Len(seq) + n))

RECURSIVE StripLeft(_)
StripLeft(s) ==
    IF s # <<>> /\ IsSpace(Head(s)) THEN StripLeft(Tail(s)) ELSE s

RECURSIVE StripRight(_)
StripRight(s) ==
    IF s # <<>> /\ IsSpace(s[Len(s)])
    THEN StripRight(SubSeq(s, 1, Len(s) - 1)) ELSE s

\* str.strip()
Strip(s) == StripRight(StripLeft(s))

\* Position of the last line break of s, 0 when it has none.
LastBreak(s) ==
    LET at == {i \in 1..Len(s) : s[i] = "\n"}
    IN  IF at = {} THEN 0 ELSE CHOOSE i \in at : \A j \in at : j <= i

\* "\n".join(s.split("\n")[:-1]): the lines before the last one.
LinesBeforeLast(s) ==
    IF LastBreak(s) = 0 THEN <<>> ELSE SubSeq(s, 1, LastBreak(s) - 1)

\* "\n".join(s.split("\n")[-1:]): the last line.
LastLine(s) == SubSeq(s, LastBreak(s) + 1, Len(s))

RECURSIVE Encode(_)
\* encoder.encode: the tokens of a text, each token the text it stands for.
\* A blank joins the letter after it into one token, as in the tokenizers
\* the code loads; every other character is a token of its own.
\* A long text is encoded in two parts, cut where no token is split.
Encode(s) ==
    IF Len(s) <= 3
    THEN IF s = <<>> THEN <<>>
         ELSE IF Len(s) >= 2 /\ s[1] = " " /\ ~IsSpace(s[2])
              THEN <<SubSeq(s, 1, 2)>> \o Encode(SubSeq(s, 3, Len(s)))
              ELSE <<SubSeq(s, 1, 1)>> \o Encode(Tail(s))
    ELSE LET half == Len(s) \div 2
             cut == IF s[half] = " " /\ ~IsSpace(s[half + 1])
                    THEN half - 1 ELSE half
         IN  Encode(SubSeq(s, 1, cut)) \o Encode(SubSeq(s, cut + 1, Len(s)))

\* encoder.decode
Decode(toks) == Flatten(toks)

-----------------------------------------------------------------------------
\* ThreadedGenerator

\* The chunks a producer may pass to send(); the empty chunk is allowed.
Chunks == {<<>>, <<"a">>, <<"b", "c">>}

\* Values of the retrieval context and of the online context.
ReferenceValues == {<<>>, <<"note">>}
OnlineValues == {<<>>, <<"web">>}

\* Items of the queue: a text chunk, a trailer written by close(), or the
\* StopIteration sentinel.
Chunk(data) == [kind |-> "chunk", data |-> data]
RefsTrailer(refs) == [kind |-> "references", data |-> refs]
OnlineTrailer(res) == [kind |-> "online", data |-> res]
StopItem == [kind |-> "stop", data |-> <<>>]

\* ThreadedGenerator.__init__
RelayInit ==
    /\ queue = <<>>
    /\ response = <<>>
    /\ compiled_references \in ReferenceValues
    /\ online_results \in OnlineValues
    /\ completion_func \in BOOLEAN
    /\ producer = "ready"
    /\ pending = <<>>
    /\ close_calls = 0
    /\ sent = <<>>
    /\ consumer = "iterating"
    /\ received = <<>>
    /\ callbacks = <<>>

\* No relay exists.
RelayIdle ==
    /\ queue = <<>>
    /\ response = <<>>
    /\ compiled_references = <<>>
    /\ online_results = <<>>
    /\ completion_func = FALSE
    /\ producer = "done"
    /\ pending = <<>>
    /\ close_calls = 0
    /\ sent = <<>>
    /\ consumer = "abandoned"
    /\ received = <<>>
    /\ callbacks = <<>>

\* Faulty variant of SendAccumulate: the chunk replaces the accumulated text.
SendAccumulateOverwrite(data) ==
    /\ producer = "ready"
    /\ close_calls = 0
    /\ Len(sent) < MaxSend
    /\ response' = data
    /\ sent' = Append(sent, data)
    /\ pending' = data
    /\ producer' = "send_put"
    /\ UNCHANGED <<queue, compiled_references, online_results, completion_func,
                   close_calls, consumer, received, callbacks>>
    /\ UNCHANGED notRelayVars

\* Faulty variant of SendAccumulate: the chunk is put in front of the accumulated text.
SendAccumulatePrepend(data) ==
    /\ producer = "ready"
    /\ close_calls = 0
    /\ Len(sent) < MaxSend
    /\ response' = data \o response
    /\ sent' = Append(sent, data)
    /\ pending' = data
    /\ producer' = "send_put"
    /\ UNCHANGED <<queue, compiled_references, online_results, completion_func,
                   close_calls, consumer, received, callbacks>>
    /\ UNCHANGED notRelayVars

\* send(data), line 61: self.response += data.  The producer sends before it
\* closes: close() ends the stream.
SendAccumulate(data) ==
    /\ producer = "ready"
    /\ close_calls = 0
    /\ Len(sent) < MaxSend
    /\ response' = response \o data
    /\ sent' = Append(sent, data)
    /\ pending' = data
    /\ producer' = "send_put"
    /\ UNCHANGED <<queue, compiled_references, online_results, completion_func,
                   close_calls, consumer, received, callbacks>>
    /\ UNCHANGED notRelayVars

\* Faulty variant of SendPut: the chunk jumps the queue.
SendPutFront ==
    /\ producer = "send_put"
    /\ queue' = <<Chunk(pending)>> \o queue
    /\ pending' = <<>>
    /\ producer' = "ready"
    /\ UNCHANGED <<response, compiled_references, online_results,
                   completion_func, close_calls, sent, consumer, received,
                   callbacks>>
    /\ UNCHANGED notRelayVars

\* send(data), line 62: self.queue.put(data)
SendPut ==
    /\ producer = "send_put"
    /\ queue' = Append(queue, Chunk(pending))
    /\ pending' = <<>>
    /\ producer' = "ready"
    /\ UNCHANGED <<response, compiled_references, online_results,
                   completion_func, close_calls, sent, consumer, received,
                   callbacks>>
    /\ UNCHANGED notRelayVars

\* close() is entered; nothing guards a second call.
CloseCall ==
    /\ producer = "ready"
    /\ close_calls < MaxClose
    /\ close_calls' = close_calls + 1
    /\ producer' = "close_references"
    /\ UNCHANGED <<queue, response, compiled_references, online_results,
                   completion_func, pending, sent, consumer, received,
                   callbacks>>
    /\ UNCHANGED notRelayVars

\* Faulty variant of CloseReferences: the trailer is written for an empty
\* retrieval context too.
CloseReferencesAlways ==
    /\ producer = "close_references"
    /\ queue' = Append(queue, RefsTrailer(compiled_references))
    /\ producer' = "close_online"
    /\ UNCHANGED <<response, compiled_references, online_results,
                   completion_func, pending, close_calls, sent, consumer,
                   received, callbacks>>
    /\ UNCHANGED notRelayVars

\* close(), lines 65-66
CloseReferences ==
    /\ producer = "close_references"
    /\ queue' = IF Len(compiled_references) > 0
                THEN Append(queue, RefsTrailer(compiled_references))
                ELSE queue
    /\ producer' = "close_online"
    /\ UNCHANGED <<response, compiled_references, online_results,
                   completion_func, pending, close_calls, sent, consumer,
                   received, callbacks>>
    /\ UNCHANGED notRelayVars

\* close(), lines 67-68
CloseOnline ==
    /\ producer = "close_online"
    /\ queue' = IF Len(online_results) > 0
                THEN Append(queue, OnlineTrailer(online_results))
                ELSE queue
    /\ producer' = "close_stop"
    /\ UNCHANGED <<response, compiled_references, online_results,
                   completion_func, pending, close_calls, sent, consumer,
                   received, callbacks>>
    /\ UNCHANGED notRelayVars

\* Faulty variant of CloseStop: close() returns without the sentinel.
CloseStopMissing ==
    /\ producer = "close_stop"
    /\ producer' = "ready"
    /\ UNCHANGED <<queue, response, compiled_references, online_results,
                   completion_func, pending, close_calls, sent, consumer,
                   received, callbacks>>
    /\ UNCHANGED notRelayVars

\* close(), line 69: self.queue.put(StopIteration)
CloseStop ==
    /\ producer = "close_stop"
    /\ queue' = Append(queue, StopItem)
    /\ producer' = "ready"
    /\ UNCHANGED <<response, compiled_references, online_results,
                   completion_func, pending, close_calls, sent, consumer,
                   received, callbacks>>
    /\ UNCHANGED notRelayVars

\* The producer thread returns.
ProducerExit ==
    /\ producer = "ready"
    /\ producer' = "done"
    /\ UNCHANGED <<queue, response, compiled_references, online_results,
                   completion_func, pending, close_calls, sent, consumer,
                   received, callbacks>>
    /\ UNCHANGED notRelayVars

\* Faulty variant of NextGet: the sentinel raises StopIteration without the callback.
NextGetNoCallback ==
    /\ consumer = "iterating"
    /\ queue # <<>>
    /\ queue' = Tail(queue)
    /\ IF Head(queue) = StopItem
       THEN /\ consumer' = "raise"
            /\ UNCHANGED received
       ELSE /\ consumer' = "iterating"
            /\ received' = Append(received, Head(queue))
    /\ UNCHANGED <<response, compiled_references, online_results,
                   completion_func, producer, pending, close_calls, sent,
                   callbacks>>
    /\ UNCHANGED notRelayVars

\* __next__, lines 45-46 and 54: queue.get() blocks while the queue is empty;
\* a chunk or trailer is returned, the sentinel leads to lines 47-53.
NextGet ==
    /\ consumer = "iterating"
    /\ queue # <<>>
    /\ queue' = Tail(queue)
    /\ IF Head(queue) = StopItem
       THEN /\ consumer' = IF completion_func THEN "callback" ELSE "raise"
            /\ UNCHANGED received
       ELSE /\ consumer' = "iterating"
            /\ received' = Append(received, Head(queue))
    /\ UNCHANGED <<response, compiled_references, online_results,
                   completion_func, producer, pending, close_calls, sent,
                   callbacks>>
    /\ UNCHANGED notRelayVars

\* __next__, line 52: self.completion_func(chat_response=self.response)
NextCallback ==
    /\ consumer = "callback"
    /\ callbacks' = Append(callbacks, response)
    /\ consumer' = "raise"
    /\ UNCHANGED <<queue, response, compiled_references, online_results,
                   completion_func, producer, pending, close_calls, sent,
                   received>>
    /\ UNCHANGED notRelayVars

\* Faulty variant of NextRaise: the consumer goes on calling __next__ after the end.
NextRaiseResumes ==
    /\ consumer = "raise"
    /\ consumer' = "iterating"
    /\ UNCHANGED <<queue, response, compiled_references, online_results,
                   completion_func, producer, pending, close_calls, sent,
                   received, callbacks>>
    /\ UNCHANGED notRelayVars

\* __next__, line 53: raise StopIteration; the iteration is over.
NextRaise ==
    /\ consumer = "raise"
    /\ consumer' = "ended"
    /\ UNCHANGED <<queue, response, compiled_references, online_results,
                   completion_func, producer, pending, close_calls, sent,
                   received, callbacks>>
    /\ UNCHANGED notRelayVars

\* The consumer stops iterating before it has read the sentinel (the client
\* disconnected); __next__ is not called again.
Abandon ==
    /\ consumer = "iterating"
    /\ consumer' = "abandoned"
    /\ UNCHANGED <<queue, response, compiled_references, online_results,
                   completion_func, producer, pending, close_calls, sent,
                   received, callbacks>>
    /\ UNCHANGED notRelayVars

RelayNext ==
    \/ \E data \in Chunks : SendAccumulate(data)
    \/ SendPut
    \/ CloseCall
    \/ CloseReferences
    \/ CloseOnline
    \/ CloseStop
    \/ ProducerExit
    \/ NextGet
    \/ NextCallback
    \/ NextRaise
    \/ Abandon

-----------------------------------------------------------------------------
\* converse

\* Members of ConversationCommand used here.
Commands == {"default", "notes", "online", "webpage"}

\* The command lists a caller passes.
CommandLists ==
    {<<c>> : c \in Commands} \cup
    {<<"notes", "online">>, <<"online", "notes">>, <<>>}

\* online_results is None, an empty mapping or a mapping with results.
ConvOnlineValues == {"None", "empty", "results"}

\* prompts.no_notes_found.format() and prompts.no_online_results_found.format()
no_notes_found == <<"no_notes_found">>
no_online_results_found == <<"no_online_results_found">>

\* line 129: compiled_references is the join of the notes, "" when there are
\* none.
CompiledReferences(refs) == Flatten(refs)

\* is_none_or_empty on the compiled references (a string).
ReferencesEmpty(refs) == CompiledReferences(refs) = <<>>
\* is_none_or_empty on online_results (None or a mapping).
OnlineEmpty(res) == res \in {"None", "empty"}

\* What converse returned: nothing yet, an iterator over a list of which
\* `items` are left, or the stream of the model call.
NotReturned == [kind |-> "none", items |-> <<>>]
ListIterator(items) == [kind |-> "iter", items |-> items]
ModelStream == [kind |-> "stream", items |-> <<>>]

\* A call of converse with its arguments.
ConverseInit ==
    /\ conversation_commands \in CommandLists
    /\ references \in {<<>>, <<<<"n">>>>, <<<<"n">>, <<"m">>>>}
    /\ conv_online_results \in ConvOnlineValues
    /\ conv_completion_func \in BOOLEAN
    /\ conv_pc = "call"
    /\ conv_callbacks = <<>>
    /\ model_calls = 0
    /\ conv_returned = NotReturned
    /\ caller_received = <<>>

\* No call of converse is in progress.
ConverseIdle ==
    /\ conversation_commands = <<>>
    /\ references = <<>>
    /\ conv_online_results = "None"
    /\ conv_completion_func = FALSE
    /\ conv_pc = "idle"
    /\ conv_callbacks = <<>>
    /\ model_calls = 0
    /\ conv_returned = NotReturned
    /\ caller_received = <<>>

\* lines 150-155: the canned answer `text`; completion_func(chat_response=...)
\* is called without a check, so a missing callback raises TypeError.
Canned(text) ==
    /\ IF conv_completion_func
       THEN /\ conv_callbacks' = Append(conv_callbacks, text)
            /\ conv_returned' = ListIterator(<<text>>)
            /\ conv_pc' = "returned"
       ELSE /\ conv_pc' = "raised"
            /\ UNCHANGED <<conv_callbacks, conv_returned>>
    /\ UNCHANGED <<conversation_commands, references, conv_online_results,
                   conv_completion_func, model_calls, caller_received>>
    /\ UNCHANGED notConverseVars

\* Faulty variant of ConverseNoNotes: the canned answer is returned but never handed
\* to the completion callback.
ConverseNoNotesUnrecorded ==
    /\ conv_pc = "call"
    /\ conversation_commands = <<"notes">>
    /\ ReferencesEmpty(references)
    /\ conv_returned' = ListIterator(<<no_notes_found>>)
    /\ conv_pc' = "returned"
    /\ UNCHANGED <<conversation_commands, references, conv_online_results,
                   conv_completion_func, model_calls, caller_received,
                   conv_callbacks>>
    /\ UNCHANGED notConverseVars

\* lines 150-152
ConverseNoNotes ==
    /\ conv_pc = "call"
    /\ conversation_commands = <<"notes">>
    /\ ReferencesEmpty(references)
    /\ Canned(no_notes_found)

\* lines 153-155
ConverseNoOnline ==
    /\ conv_pc = "call"
    /\ ~(conversation_commands = <<"notes">> /\ ReferencesEmpty(references))
    /\ conversation_commands = <<"online">>
    /\ OnlineEmpty(conv_online_results)
    /\ Canned(no_online_results_found)

\* lines 157-187: neither short-circuit applies; the prompt is built and
\* chat_completion_with_backoff is called with the completion_func, which it
\* hands to the stream it returns.
ConverseModel ==
    /\ conv_pc = "call"
    /\ ~(conversation_commands = <<"notes">> /\ ReferencesEmpty(references))
    /\ ~(conversation_commands = <<"online">>
            /\ OnlineEmpty(conv_online_results))
    /\ model_calls' = model_calls + 1
    /\ conv_returned' = ModelStream
    /\ conv_pc' = "returned"
    /\ UNCHANGED <<conversation_commands, references, conv_online_results,
                   conv_completion_func, conv_callbacks, caller_received>>
    /\ UNCHANGED notConverseVars

\* The caller takes the next item of the iterator of lines 152 and 155.
CallerNext ==
    /\ conv_pc = "returned"
    /\ conv_returned.kind = "iter"
    /\ conv_returned.items # <<>>
    /\ caller_received' = Append(caller_received, Head(conv_returned.items))
    /\ conv_returned' = ListIterator(Tail(conv_returned.items))
    /\ UNCHANGED <<conversation_commands, references, conv_online_results,
                   conv_completion_func, conv_pc, conv_callbacks, model_calls>>
    /\ UNCHANGED notConverseVars

\* The iterator is exhausted: the caller's iteration ends.
CallerEnd ==
    /\ conv_pc = "returned"
    /\ conv_returned.kind = "iter"
    /\ conv_returned.items = <<>>
    /\ conv_pc' = "ended"
    /\ UNCHANGED <<conversation_commands, references, conv_online_results,
                   conv_completion_func, conv_callbacks, model_calls,
                   conv_returned, caller_received>>
    /\ UNCHANGED notConverseVars

ConverseNext ==
    \/ ConverseNoNotes
    \/ ConverseNoOnline
    \/ ConverseModel
    \/ CallerNext
    \/ CallerEnd

-----------------------------------------------------------------------------
\* truncate_messages

\* A ChatMessage; NoMessage stands for None.
Message(role, content) == [role |-> role, content |-> content]
NoMessage == [role |-> "none", content |-> <<>>]

\* A content that is not a str (a list of parts).
NonStr == <<"<parts>">>
IsStr(content) == content # NonStr

\* len(encoder.encode(message.content)), counted for str contents only.
MessageTokens(m) == IF IsStr(m.content) THEN Len(Encode(m.content)) ELSE 0

RECURSIVE CountTokens(_)
\* lines 232 and 237: sum of the token counts of the messages.
CountTokens(msgs) ==
    IF msgs = <<>> THEN 0
    ELSE MessageTokens(Head(msgs)) + CountTokens(Tail(msgs))

\* lines 223-226: index of the first system message, 0 when there is none.
SystemIndex(msgs) ==
    LET at == {i \in 1..Len(msgs) : msgs[i].role = "system"}
    IN  IF at = {} THEN 0 ELSE CHOOSE i \in at : \A j \in at : i <= j

\* list.pop(idx)
RemoveAt(msgs, idx) ==
    SubSeq(msgs, 1, idx - 1) \o SubSeq(msgs, idx + 1, Len(msgs))

\* Faulty variant of TruncatedContent: the tokens of the last line are not taken off
\* the budget of the lines before it.
TruncatedContentNoReserve(content, budget, system_tokens) ==
    LET current_message ==
            IF IsStr(content) THEN LinesBeforeLast(content) ELSE <<>>
        original_question ==
            <<"\n">> \o (IF IsStr(content) THEN LastLine(content) ELSE <<>>)
        original_question_tokens == Len(Encode(original_question))
        remaining_tokens == budget - system_tokens
    IN  IF remaining_tokens > original_question_tokens
        THEN Strip(Decode(SliceTo(Encode(current_message), remaining_tokens)))
                \o original_question
        ELSE Strip(Decode(SliceTo(Encode(original_question),
                    remaining_tokens)))

\* Faulty variant of TruncatedContent: the whole content is cut to its first
\* tokens, the last line is not set apart.
TruncatedContentHead(content, budget, system_tokens) ==
    IF IsStr(content)
    THEN Strip(Decode(SliceTo(Encode(content), budget - system_tokens)))
    ELSE <<>>

\* lines 241-252: the content of the one message left, cut to the budget.
TruncatedContent(content, budget, system_tokens) ==
    LET current_message ==
            IF IsStr(content) THEN LinesBeforeLast(content) ELSE <<>>
        original_question ==
            <<"\n">> \o (IF IsStr(content) THEN LastLine(content) ELSE <<>>)
        original_question_tokens == Len(Encode(original_question))
        remaining_tokens == budget - system_tokens
    IN  IF remaining_tokens > original_question_tokens
        THEN Strip(Decode(SliceTo(Encode(current_message),
                    remaining_tokens - original_question_tokens)))
                \o original_question
        ELSE Strip(Decode(SliceTo(Encode(original_question),
                    remaining_tokens)))

\* The inputs: as generate_chatml_messages_with_context builds them (lines
\* 172-178), the new user message if any, then the history newest first, then
\* the system message if any.
NewestOptions ==
    {<<>>} \cup {<<Message("user", c)>> : c \in Texts(MaxText) \cup {NonStr}}
PlainNewest ==
    {<<>>, <<Message("user", <<"a">>)>>,
     <<Message("user", <<"a", "\n", "a">>)>>}
HistoryTexts == {<<"a">>, <<"a", "a">>}
HistoryRole(i) == IF i % 2 = 1 THEN "assistant" ELSE "user"
HistoryOptions ==
    UNION {{[i \in 1..k |-> Message(HistoryRole(i), f[i])] :
                f \in [1..k -> HistoryTexts]} : k \in 0..MaxHistory}
ShortHistory == {h \in HistoryOptions : Len(h) <= 1}
SystemOptions ==
    {<<>>, <<Message("system", <<"a">>)>>,
     <<Message("system", <<"a", "a", "a">>)>>}
\* Any newest message with at most one history message, or a plain newest
\* message with any history.
TruncateInputs ==
    {n \o h \o sy : n \in NewestOptions, h \in ShortHistory,
                    sy \in SystemOptions}
    \cup {n \o h \o sy : n \in PlainNewest, h \in HistoryOptions,
                         sy \in SystemOptions}
\* Budgets, from nothing up to more than the newest message can cost.
PromptSizes == 0..(MaxText + 2)

\* A call of truncate_messages with its arguments.
TruncateInit ==
    /\ messages \in TruncateInputs
    /\ input_messages = messages
    /\ max_prompt_size \in PromptSizes
    /\ system_message = NoMessage
    /\ system_message_tokens = 0
    /\ tokens = 0
    /\ trunc_pc = "start"
    /\ result = <<>>
    /\ reapplied = FALSE

\* No call of truncate_messages is in progress.
TruncateIdle ==
    /\ messages = <<>>
    /\ input_messages = <<>>
    /\ max_prompt_size = 0
    /\ system_message = NoMessage
    /\ system_message_tokens = 0
    /\ tokens = 0
    /\ trunc_pc = "idle"
    /\ result = <<>>
    /\ reapplied = FALSE

\* lines 221-232: take the system message out, count both parts.
ExtractSystem ==
    /\ trunc_pc = "start"
    /\ LET idx == SystemIndex(messages)
           sys == IF idx = 0 THEN NoMessage ELSE messages[idx]
           rest == IF idx = 0 THEN messages ELSE RemoveAt(messages, idx)
       IN  /\ system_message' = sys
           /\ messages' = rest
           /\ system_message_tokens' =
                  IF idx # 0 THEN MessageTokens(sys) ELSE 0
           /\ tokens' = CountTokens(rest)
    /\ trunc_pc' = "loop"
    /\ UNCHANGED <<max_prompt_size, result, input_messages, reapplied>>
    /\ UNCHANGED notTruncateVars

\* Faulty variant of OverBudget: a list that uses the budget exactly counts as
\* over it.
OverBudgetAtLimit == tokens + system_message_tokens >= max_prompt_size

\* line 235: the condition of the while loop.
OverBudget == tokens + system_message_tokens > max_prompt_size

\* Faulty variant of DropOldest: pop(0), the newest message is dropped.
DropNewest ==
    /\ trunc_pc = "loop"
    /\ tokens + system_message_tokens > max_prompt_size /\ Len(messages) > 1
    /\ messages' = Tail(messages)
    /\ tokens' = CountTokens(messages')
    /\ UNCHANGED <<max_prompt_size, system_message, system_message_tokens,
                   trunc_pc, result, input_messages, reapplied>>
    /\ UNCHANGED notTruncateVars

\* lines 235-237: one turn of the loop, messages.pop() drops the last message.
DropOldest ==
    /\ trunc_pc = "loop"
    /\ OverBudget /\ Len(messages) > 1
    /\ messages' = SubSeq(messages, 1, Len(messages) - 1)
    /\ tokens' = CountTokens(messages')
    /\ UNCHANGED <<max_prompt_size, system_message, system_message_tokens,
                   trunc_pc, result, input_messages, reapplied>>
    /\ UNCHANGED notTruncateVars

\* lines 240-252: the loop is over and the budget still exceeded: messages[0]
\* is cut; with an empty list messages[0] raises IndexError.
TruncateCurrent ==
    /\ trunc_pc = "loop"
    /\ ~(OverBudget /\ Len(messages) > 1)
    /\ OverBudget
    /\ IF messages = <<>>
       THEN /\ trunc_pc' = "raised"
            /\ UNCHANGED messages
       ELSE /\ messages' =
                  <<Message(messages[1].role,
                            TruncatedContent(messages[1].content,
                                max_prompt_size, system_message_tokens))>>
            /\ trunc_pc' = "return"
    /\ UNCHANGED <<max_prompt_size, system_message, system_message_tokens,
                   tokens, result, input_messages, reapplied>>
    /\ UNCHANGED notTruncateVars

\* line 240, condition false: nothing is cut.
KeepCurrent ==
    /\ trunc_pc = "loop"
    /\ ~OverBudget
    /\ trunc_pc' = "return"
    /\ UNCHANGED <<messages, max_prompt_size, system_message,
                   system_message_tokens, tokens, result, input_messages,
                   reapplied>>
    /\ UNCHANGED notTruncateVars

\* Faulty variant of Return: the list is turned round before it is returned.
ReturnReversed ==
    /\ trunc_pc = "return"
    /\ result' = IF system_message # NoMessage
                 THEN Reverse(messages) \o <<system_message>>
                 ELSE Reverse(messages)
    /\ trunc_pc' = "done"
    /\ UNCHANGED <<messages, max_prompt_size, system_message,
                   system_message_tokens, tokens, input_messages, reapplied>>
    /\ UNCHANGED notTruncateVars

\* Faulty variant of Return: the system message is not put back.
ReturnWithoutSystem ==
    /\ trunc_pc = "return"
    /\ result' = messages
    /\ trunc_pc' = "done"
    /\ UNCHANGED <<messages, max_prompt_size, system_message,
                   system_message_tokens, tokens, input_messages, reapplied>>
    /\ UNCHANGED notTruncateVars

\* line 257
Return ==
    /\ trunc_pc = "return"
    /\ result' = IF system_message # NoMessage
                 THEN messages \o <<system_message>> ELSE messages
    /\ trunc_pc' = "done"
    /\ UNCHANGED <<messages, max_prompt_size, system_message,
                   system_message_tokens, tokens, input_messages, reapplied>>
    /\ UNCHANGED notTruncateVars

\* A caller passes the returned list to truncate_messages again, with the
\* same max_prompt_size.
Reapply ==
    /\ trunc_pc = "done"
    /\ ~reapplied
    /\ messages' = result
    /\ input_messages' = result
    /\ system_message' = NoMessage
    /\ system_message_tokens' = 0
    /\ tokens' = 0
    /\ result' = <<>>
    /\ trunc_pc' = "start"
    /\ reapplied' = TRUE
    /\ UNCHANGED max_prompt_size
    /\ UNCHANGED notTruncateVars

TruncateNext ==
    \/ ExtractSystem
    \/ DropOldest
    \/ TruncateCurrent
    \/ KeepCurrent
    \/ Return
    \/ Reapply

-----------------------------------------------------------------------------
\* generate_chatml_messages_with_context

\* lines 21-28
model_to_prompt_size ==
    ("gpt-3.5-turbo" :> 12000) @@ ("gpt-3.5-turbo-0125" :> 12000)
    @@ ("gpt-4-0125-preview" :> 20000) @@ ("gpt-4-turbo-preview" :> 20000)
    @@ ("TheBloke/Mistral-7B-Instruct-v0.2-GGUF" :> 3500)
    @@ ("NousResearch/Hermes-2-Pro-Mistral-7B-GGUF" :> 3500)
\* line 153: the budget of a model the table does not hold.
DefaultPromptSize == 2000
\* line 156: the tokens one turn is taken to cost.
TokensPerTurn == 750

\* The model_name arguments: the models of the table and one it lacks.
ModelNames == DOMAIN model_to_prompt_size \cup {"unknown-model"}

\* The max_prompt_size argument: None, or a number.
NoOverride == [given |-> FALSE, value |-> 0]
Override(v) == [given |-> TRUE, value |-> v]
Overrides == {NoOverride} \cup {Override(v) : v \in {0, 1, 749, 750, 1500}}
\* line 149: "not max_prompt_size" is true of None and of 0.
IsFalsy(arg) == ~arg.given \/ arg.value = 0

\* line 151: infer_max_tokens of the offline chat utilities: a budget derived
\* from the native context length of the loaded model, never above it.
InferMaxTokens(n_ctx) == {n_ctx \div 2, n_ctx}
\* The loaded_model arguments: None (0) or a model of this context length.
LoadedModels == {0, 2048}

\* lines 149-153
PromptSizeChoices ==
    IF ~IsFalsy(override) THEN {override.value}
    ELSE IF loaded_model # 0 THEN InferMaxTokens(loaded_model)
    ELSE IF model_name \in DOMAIN model_to_prompt_size
         THEN {model_to_prompt_size[model_name]}
         ELSE {DefaultPromptSize}

\* Faulty variant of LookbackTurns: the quotient is rounded up.
LookbackTurnsRoundedUp(budget) ==
    (budget + TokensPerTurn - 1) \div TokensPerTurn

\* line 156
LookbackTurns(budget) == budget \div TokensPerTurn

\* An entry of conversation_log["chat"]; context <<>> stands for no context,
\* any other text for a list of that one note.
Entry(by, message, context) ==
    [by |-> by, message |-> message, context |-> context]
Digits == <<"1", "2", "3", "4", "5", "6", "7", "8">>
\* The logs: entries written by "you" and "khoj" in turn, each with a text
\* of its own; a log of odd length ends with the user entry of a turn that
\* has no answer yet.
ConversationLogs ==
    UNION {{[i \in 1..n |->
                Entry(IF i % 2 = 1 THEN "you" ELSE "khoj", <<Digits[i]>>,
                      IF i % 2 = 1 THEN <<>> ELSE c[i])] :
            c \in [1..n -> {<<>>, <<"c">>}]} : n \in 0..MaxLog}

\* str() of the list of notes, as the f-string of line 161 renders it.
ContextRepr(context) == <<"[", "'">> \o context \o <<"'", "]">>
\* lines 161-162: the text of one entry.
Render(chat) ==
    chat.message \o
        (IF chat.context # <<>>
         THEN <<"\n", "\n", " ", "N", "o", "t", "e", "s", ":", "\n">>
                \o ContextRepr(chat.context)
         ELSE <<"\n">>)

RECURSIVE Stride(_, _)
\* seq[start::-2] of Python, start counted from 1: every second element,
\* backwards.
Stride(seq, start) ==
    IF start < 1 THEN <<>>
    ELSE <<seq[start]>> \o Stride(seq, start - 2)
\* line 166: chat_logs[-2::-2] and chat_logs[::-2], and the length of their zip.
UserMsgs == Stride(chat_logs, Len(chat_logs) - 1)
AssistantMsgs == Stride(chat_logs, Len(chat_logs))
ZipLen == Min(Len(UserMsgs), Len(AssistantMsgs))

\* lines 260-262
reciprocal_conversation_to_chatml(message_pair) ==
    [i \in 1..Min(Len(message_pair), 2) |->
        Message(IF i = 1 THEN "user" ELSE "assistant", message_pair[i])]

\* is_none_or_empty of the helpers, for a text.
is_none_or_empty(text) == text = <<>>

NoCall == [made |-> FALSE, messages |-> <<>>, max_prompt_size |-> 0]

\* A call of generate_chatml_messages_with_context with its arguments.
PromptInit ==
    /\ user_message \in {<<>>, <<"q">>}
    /\ gen_system_message \in {<<>>, <<"s">>}
    /\ conversation_log \in ConversationLogs
    /\ model_name \in ModelNames
    /\ loaded_model \in LoadedModels
    /\ override \in Overrides
    /\ gen_max_prompt_size = override.value
    /\ lookback_turns = 0
    /\ chat_logs = <<>>
    /\ rest_backnforths = <<>>
    /\ pair_index = 1
    /\ gen_messages = <<>>
    /\ truncate_call = NoCall
    /\ gen_pc = "start"
    /\ gen_returned = <<>>

\* No call of generate_chatml_messages_with_context is in progress.
PromptIdle ==
    /\ user_message = <<>>
    /\ gen_system_message = <<>>
    /\ conversation_log = <<>>
    /\ model_name = ""
    /\ loaded_model = 0
    /\ override = NoOverride
    /\ gen_max_prompt_size = 0
    /\ lookback_turns = 0
    /\ chat_logs = <<>>
    /\ rest_backnforths = <<>>
    /\ pair_index = 1
    /\ gen_messages = <<>>
    /\ truncate_call = NoCall
    /\ gen_pc = "idle"
    /\ gen_returned = <<>>

\* lines 149-156: the budget and the lookback.
ResolveBudget ==
    /\ gen_pc = "start"
    /\ \E b \in PromptSizeChoices :
        /\ gen_max_prompt_size' = b
        /\ lookback_turns' = LookbackTurns(b)
    /\ gen_pc' = "render"
    /\ UNCHANGED <<user_message, gen_system_message, conversation_log,
                   model_name, loaded_model, override, chat_logs,
                   rest_backnforths, pair_index, gen_messages,
                   truncate_call>>
    /\ UNCHANGED gen_returned
    /\ UNCHANGED notPromptVars

\* lines 159-162: every entry of the log becomes a text.
RenderLogs ==
    /\ gen_pc = "render"
    /\ chat_logs' = [i \in 1..Len(conversation_log) |->
                        Render(conversation_log[i])]
    /\ gen_pc' = "pair"
    /\ UNCHANGED <<user_message, gen_system_message, conversation_log,
                   model_name, loaded_model, override, gen_max_prompt_size,
                   lookback_turns, rest_backnforths, pair_index,
                   gen_messages, truncate_call>>
    /\ UNCHANGED gen_returned
    /\ UNCHANGED notPromptVars

\* lines 166-169: one turn of the loop over the zip.
PairStep ==
    /\ gen_pc = "pair"
    /\ pair_index <= ZipLen
    /\ ~(Len(rest_backnforths) >= 2 * lookback_turns)
    /\ rest_backnforths' = rest_backnforths \o
            Reverse(reciprocal_conversation_to_chatml(
                <<UserMsgs[pair_index], AssistantMsgs[pair_index]>>))
    /\ pair_index' = pair_index + 1
    /\ UNCHANGED <<user_message, gen_system_message, conversation_log,
                   model_name, loaded_model, override, gen_max_prompt_size,
                   lookback_turns, chat_logs, gen_messages, truncate_call,
                   gen_pc>>
    /\ UNCHANGED gen_returned
    /\ UNCHANGED notPromptVars

\* lines 167-168: the break.
PairBreak ==
    /\ gen_pc = "pair"
    /\ pair_index <= ZipLen
    /\ Len(rest_backnforths) >= 2 * lookback_turns
    /\ gen_pc' = "assemble"
    /\ UNCHANGED <<user_message, gen_system_message, conversation_log,
                   model_name, loaded_model, override, gen_max_prompt_size,
                   lookback_turns, chat_logs, rest_backnforths, pair_index,
                   gen_messages, truncate_call>>
    /\ UNCHANGED gen_returned
    /\ UNCHANGED notPromptVars

\* line 166: the zip is exhausted.
PairEnd ==
    /\ gen_pc = "pair"
    /\ pair_index > ZipLen
    /\ gen_pc' = "assemble"
    /\ UNCHANGED <<user_message, gen_system_message, conversation_log,
                   model_name, loaded_model, override, gen_max_prompt_size,
                   lookback_turns, chat_logs, rest_backnforths, pair_index,
                   gen_messages, truncate_call>>
    /\ UNCHANGED gen_returned
    /\ UNCHANGED notPromptVars

\* lines 172-178: the new message, the history, the system message.
Assemble ==
    /\ gen_pc = "assemble"
    /\ gen_messages' =
            (IF ~is_none_or_empty(user_message)
             THEN <<Message("user", user_message)>> ELSE <<>>)
            \o rest_backnforths
            \o (IF ~is_none_or_empty(gen_system_message)
                THEN <<Message("system", gen_system_message)>> ELSE <<>>)
    /\ gen_pc' = "truncate"
    /\ UNCHANGED <<user_message, gen_system_message, conversation_log,
                   model_name, loaded_model, override, gen_max_prompt_size,
                   lookback_turns, chat_logs, rest_backnforths, pair_index,
                   truncate_call>>
    /\ UNCHANGED gen_returned
    /\ UNCHANGED notPromptVars

\* line 181: the list and the budget go to truncate_messages.
CallTruncate ==
    /\ gen_pc = "truncate"
    /\ truncate_call' = [made |-> TRUE, messages |-> gen_messages,
                         max_prompt_size |-> gen_max_prompt_size]
    /\ gen_pc' = "called"
    /\ UNCHANGED <<user_message, gen_system_message, conversation_log,
                   model_name, loaded_model, override, gen_max_prompt_size,
                   lookback_turns, chat_logs, rest_backnforths, pair_index,
                   gen_messages>>
    /\ UNCHANGED gen_returned
    /\ UNCHANGED notPromptVars

PromptNext ==
    \/ ResolveBudget
    \/ RenderLogs
    \/ PairStep
    \/ PairBreak
    \/ PairEnd
    \/ Assemble
    \/ CallTruncate

-----------------------------------------------------------------------------
\* generate_chatml_messages_with_context together with the truncate_messages
\* it calls (lines 181-184)

\* A text that costs as many tokens as one turn is taken to cost.
LongText == [i \in 1..TokensPerTurn |-> "a"]
\* Logs of short entries and logs of long entries, with and without a last
\* entry that has no answer yet.
BuildLogs ==
    {[i \in 1..n |->
        Entry(IF i % 2 = 1 THEN "you" ELSE "khoj",
              IF long THEN <<Digits[i]>> \o LongText ELSE <<Digits[i]>>,
              <<>>)] :
        n \in 0..(2 * MaxPairs), long \in BOOLEAN}

\* A call of generate_chatml_messages_with_context whose budget lets
\* truncate_messages drop history.
BuildInit ==
    /\ user_message \in {<<>>, <<"q">>}
    /\ gen_system_message \in {<<>>, <<"s">>}
    /\ conversation_log \in BuildLogs
    /\ model_name = "gpt-3.5-turbo"
    /\ loaded_model = 0
    /\ override \in {NoOverride, Override(1), Override(750), Override(1500)}
    /\ gen_max_prompt_size = override.value
    /\ lookback_turns = 0
    /\ chat_logs = <<>>
    /\ rest_backnforths = <<>>
    /\ pair_index = 1
    /\ gen_messages = <<>>
    /\ truncate_call = NoCall
    /\ gen_pc = "start"
    /\ gen_returned = <<>>

\* line 181: truncate_messages starts with the list and the budget.
BeginTruncate ==
    /\ gen_pc = "called"
    /\ trunc_pc = "idle"
    /\ messages' = truncate_call.messages
    /\ input_messages' = truncate_call.messages
    /\ max_prompt_size' = truncate_call.max_prompt_size
    /\ trunc_pc' = "start"
    /\ gen_pc' = "truncating"
    /\ UNCHANGED <<system_message, system_message_tokens, tokens, result,
                   reapplied>>
    /\ UNCHANGED <<user_message, gen_system_message, conversation_log,
                   model_name, loaded_model, override, gen_max_prompt_size,
                   lookback_turns, chat_logs, rest_backnforths, pair_index,
                   gen_messages, truncate_call, gen_returned>>
    /\ UNCHANGED notBuildVars

\* lines 181 and 184: the list truncate_messages returned is turned round
\* and returned.
ReturnPrompt ==
    /\ gen_pc = "truncating"
    /\ trunc_pc = "done"
    /\ gen_messages' = result
    /\ gen_returned' = Reverse(result)
    /\ gen_pc' = "returned"
    /\ UNCHANGED <<user_message, gen_system_message, conversation_log,
                   model_name, loaded_model, override, gen_max_prompt_size,
                   lookback_turns, chat_logs, rest_backnforths, pair_index,
                   truncate_call>>
    /\ UNCHANGED truncateVars
    /\ UNCHANGED notBuildVars

BuildNext ==
    \/ ResolveBudget
    \/ RenderLogs
    \/ PairStep
    \/ PairBreak
    \/ PairEnd
    \/ Assemble
    \/ CallTruncate
    \/ BeginTruncate
    \/ ExtractSystem
    \/ DropOldest
    \/ TruncateCurrent
    \/ KeepCurrent
    \/ Return
    \/ ReturnPrompt

-----------------------------------------------------------------------------
\* save_to_conversation_log and the conversations it is saved to

Users == {"alice", "bob"}
ConvIds == 1..MaxConversations
Requests == 1..MaxRequests

\* A row of Conversation, and the absence of one.
Conversation(user, log, slug, updated_at) ==
    [user |-> user, conversation_log |-> log, slug |-> slug,
     updated_at |-> updated_at]
NoConversation ==
    [user |-> "none", conversation_log |-> <<>>, slug |-> <<>>,
     updated_at |-> 0]

\* The q and the chat_response of a request, each a text of its own.
Question(r) == <<"q", Digits[r]>>
Response(r) == <<"r", Digits[r]>>

\* The conversations of a user, and the one updated last (order_by
\* "-updated_at", first()).
ConversationsOf(store, user) ==
    {id \in ConvIds : store[id] # NoConversation /\ store[id].user = user}
MostRecent(store, user) ==
    CHOOSE id \in ConversationsOf(store, user) :
        \A other \in ConversationsOf(store, user) :
            store[other].updated_at <= store[id].updated_at
\* Faulty variant of FindConversation: a conversation_id finds the
\* conversation of any user.
FindConversationOfAnyUser(store, user, conversation_id) ==
    IF conversation_id # 0
    THEN IF store[conversation_id] # NoConversation
         THEN conversation_id ELSE 0
    ELSE IF ConversationsOf(store, user) # {}
         THEN MostRecent(store, user) ELSE 0

\* Conversation.objects.filter(user=user, id=conversation_id).first(), or
\* without an id the conversation updated last; 0 stands for None.
FindConversation(store, user, conversation_id) ==
    IF conversation_id # 0
    THEN IF conversation_id \in ConversationsOf(store, user)
         THEN conversation_id ELSE 0
    ELSE IF ConversationsOf(store, user) # {}
         THEN MostRecent(store, user) ELSE 0

\* Faulty variant of message_to_log: the entry of the user alone is appended.
message_to_log_user_only(q, chat_response, context, log) ==
    Append(log, Entry("you", q, <<>>))

\* Faulty variant of message_to_log: the new turn is put in front of the log.
message_to_log_in_front(q, chat_response, context, log) ==
    <<Entry("you", q, <<>>),
      Entry("khoj", chat_response, context)>> \o log

\* utils.py lines 83-90: the entry of the user, the entry of khoj, both
\* appended to the log.
message_to_log(q, chat_response, context, log) ==
    LET human_log == Entry("you", q, <<>>)
        khoj_log == Entry("khoj", chat_response, context)
    IN  log \o <<human_log, khoj_log>>

\* The stores a run starts from: none, one or two conversations.
InitialStores ==
    {[id \in ConvIds |->
        IF id = 1 /\ first # "none"
        THEN Conversation(first, <<>>, <<>>, 1)
        ELSE IF id = 2 /\ first # "none" /\ second # "none"
        THEN Conversation(second, <<>>, <<>>, 2)
        ELSE NoConversation] :
     first \in Users \cup {"none"}, second \in Users \cup {"none"}}
StoreSize(store) == Cardinality({id \in ConvIds : store[id] # NoConversation})

NoRequest == [pc |-> "idle", user |-> "none", conversation_id |-> 0,
              meta_log |-> <<>>]

\* Requests about to be served, each with its user and conversation_id.
RecordInit ==
    /\ conversations \in InitialStores
    /\ next_id = StoreSize(conversations) + 1
    /\ clock = StoreSize(conversations) + 1
    /\ requests \in [Requests ->
            {[pc |-> "start", user |-> u, conversation_id |-> id,
              meta_log |-> <<>>] : u \in Users, id \in 0..2}]
    /\ saves = 0
    /\ deletes = 0

\* No request is served and nothing is stored.
RecordIdle ==
    /\ conversations = [id \in ConvIds |-> NoConversation]
    /\ next_id = 1
    /\ clock = 1
    /\ requests = [r \in Requests |-> NoRequest]
    /\ saves = 0
    /\ deletes = 0

\* adapters lines 594-609, get_conversation_by_user: the conversation of the
\* request is read, created when the user has none and no id was given; its
\* log becomes the meta_log of the request.
ReadConversation(r) ==
    /\ requests[r].pc = "start"
    /\ LET user == requests[r].user
           found == FindConversation(conversations, user,
                                     requests[r].conversation_id)
       IN  IF found # 0
           THEN /\ requests' = [requests EXCEPT
                        ![r].pc = "read",
                        ![r].meta_log = conversations[found].conversation_log]
                /\ UNCHANGED <<conversations, next_id, clock>>
           ELSE IF requests[r].conversation_id # 0
           THEN /\ requests' = [requests EXCEPT ![r].pc = "not_found"]
                /\ UNCHANGED <<conversations, next_id, clock>>
           ELSE /\ next_id <= MaxConversations
                /\ conversations' = [conversations EXCEPT ![next_id] =
                        Conversation(user, <<>>, <<>>, clock)]
                /\ next_id' = next_id + 1
                /\ clock' = clock + 1
                /\ requests' = [requests EXCEPT ![r].pc = "read"]
    /\ UNCHANGED <<saves, deletes>>
    /\ UNCHANGED notRecordVars

\* adapters lines 750-774, save_conversation: the conversation with the id,
\* or the one updated last, gets the log, the slug and the time; without one
\* a conversation is created.
SavedStore(store, user, log, conversation_id, q, id_new, now) ==
    LET slug == SliceTo(Strip(q), 200)
        found == FindConversation(store, user, conversation_id)
    IN  IF found # 0
        THEN [store EXCEPT ![found] = Conversation(user, log, slug, now)]
        ELSE [store EXCEPT ![id_new] = Conversation(user, log, slug, now)]

\* utils.py lines 93-126, save_to_conversation_log: the turn is appended to
\* meta_log["chat"] and the whole log is saved.
Record(r) ==
    /\ requests[r].pc = "read"
    /\ LET user == requests[r].user
           conversation_id == requests[r].conversation_id
           updated_conversation ==
                message_to_log(Question(r), Response(r), <<>>,
                               requests[r].meta_log)
           found == FindConversation(conversations, user, conversation_id)
       IN  /\ found = 0 => next_id <= MaxConversations
           /\ conversations' =
                SavedStore(conversations, user, updated_conversation,
                           conversation_id, Question(r), next_id, clock)
           /\ next_id' = IF found = 0 THEN next_id + 1 ELSE next_id
    /\ clock' = clock + 1
    /\ saves' = saves + 1
    /\ requests' = [requests EXCEPT ![r].pc = "done"]
    /\ UNCHANGED deletes
    /\ UNCHANGED notRecordVars

\* adapters lines 663-668, adelete_conversation_by_user: one conversation of
\* the user, or all of them without an id.
DeleteConversation(user, conversation_id) ==
    /\ deletes < MaxDeletes
    /\ ConversationsOf(conversations, user) # {}
    /\ conversations' =
            [id \in ConvIds |->
                IF /\ id \in ConversationsOf(conversations, user)
                   /\ conversation_id \in {0, id}
                THEN NoConversation ELSE conversations[id]]
    /\ deletes' = deletes + 1
    /\ UNCHANGED <<next_id, clock, requests, saves>>
    /\ UNCHANGED notRecordVars

RecordNext ==
    \/ \E r \in Requests : ReadConversation(r)
    \/ \E r \in Requests : Record(r)
    \/ \E user \in Users, id \in 0..2 : DeleteConversation(user, id)

-----------------------------------------------------------------------------
\* Tokenizer resolution of truncate_messages (utils.py lines 196-219)

Resolvers == 1..MaxResolvers

\* line 196
default_tokenizer == <<"l", "l", "a", "m", "a">>
\* Names of chat models and of tokenizers; <<>> stands for None.
HostedModel == <<"g", "p", "t", "-", "4">>
LocalModel == <<"g", "p", "t", "4", "a", "l", "l">>
OtherModel == <<"m">>
NamedTokenizer == <<"t", "o", "k">>
\* The keys state.pretrained_tokenizers may get.
TokenizerIds == {default_tokenizer, NamedTokenizer, LocalModel, OtherModel,
                 HostedModel}

\* line 201: model_name.startswith("gpt-")
StartsWithGpt(name) == IsPrefix(<<"g", "p", "t", "-">>, name)

\* An encoder object: what made it, for which name, and which object it is.
Encoder(source, id, obj) == [source |-> source, id |-> id, obj |-> obj]
NoEncoder == [source |-> "none", id |-> <<>>, obj |-> 0]

\* The arguments of a call: loaded_model (given or not), model_name,
\* tokenizer_name.
ResolveArguments ==
    {<<TRUE, HostedModel, NamedTokenizer>>, <<TRUE, OtherModel, <<>>>>,
     <<FALSE, HostedModel, NamedTokenizer>>, <<FALSE, HostedModel, <<>>>>,
     <<FALSE, LocalModel, NamedTokenizer>>, <<FALSE, OtherModel, NamedTokenizer>>,
     <<FALSE, OtherModel, default_tokenizer>>, <<FALSE, OtherModel, <<>>>>}

\* Faulty variant of ResolutionStep: the explicit tokenizer_name is looked at
\* before the name of the model.
ResolutionStepNameFirst(loaded, name, tokenizer_name) ==
    IF loaded THEN "loaded_model"
    ELSE IF tokenizer_name # <<>> THEN "tokenizer_name"
    ELSE IF StartsWithGpt(name) THEN "tiktoken"
    ELSE "download_model"

\* lines 199-210: the branch of the if statement that is taken.
ResolutionStep(loaded, name, tokenizer_name) ==
    IF loaded THEN "loaded_model"
    ELSE IF StartsWithGpt(name) THEN "tiktoken"
    ELSE IF tokenizer_name # <<>> THEN "tokenizer_name"
    ELSE "download_model"

NoResolver == [pc |-> "idle", loaded_model |-> FALSE, model_name |-> <<>>,
               tokenizer_name |-> <<>>, encoder |-> NoEncoder,
               resolved_by |-> "none"]

\* Calls of truncate_messages about to resolve their tokenizer, in a process
\* whose cache is empty.
ResolveInit ==
    /\ pretrained_tokenizers = [id \in TokenizerIds |-> NoEncoder]
    /\ resolvers \in [Resolvers ->
            {[pc |-> "start", loaded_model |-> a[1], model_name |-> a[2],
              tokenizer_name |-> a[3], encoder |-> NoEncoder,
              resolved_by |-> "none"] : a \in ResolveArguments}]
    /\ next_encoder = 1
    /\ tokenizer_loads = <<>>

\* No call resolves a tokenizer.
ResolveIdle ==
    /\ pretrained_tokenizers = [id \in TokenizerIds |-> NoEncoder]
    /\ resolvers = [t \in Resolvers |-> NoResolver]
    /\ next_encoder = 1
    /\ tokenizer_loads = <<>>

\* The call t has its encoder.
Resolved(t, encoder, by) ==
    [resolvers EXCEPT ![t].pc = "done", ![t].encoder = encoder,
                      ![t].resolved_by = by]

\* lines 199-202 and 210: the tokenizer of the loaded model, of tiktoken or
\* of the downloaded model; the call succeeds or raises.
ResolveDirect(t) ==
    /\ resolvers[t].pc = "start"
    /\ LET step == ResolutionStep(resolvers[t].loaded_model,
                                  resolvers[t].model_name,
                                  resolvers[t].tokenizer_name)
       IN  /\ step \in {"loaded_model", "tiktoken", "download_model"}
           /\ \/ /\ resolvers' = Resolved(t, Encoder(step,
                                    resolvers[t].model_name, next_encoder),
                                    step)
                 /\ next_encoder' = next_encoder + 1
                 /\ tokenizer_loads' =
                        IF step = "download_model"
                        THEN Append(tokenizer_loads, resolvers[t].model_name)
                        ELSE tokenizer_loads
              \/ /\ resolvers' = [resolvers EXCEPT ![t].pc = "except"]
                 /\ UNCHANGED <<next_encoder, tokenizer_loads>>
    /\ UNCHANGED pretrained_tokenizers
    /\ UNCHANGED notResolveVars

\* lines 203-206: the explicit tokenizer_name is looked up in the cache.
LookupNamed(t) ==
    /\ resolvers[t].pc = "start"
    /\ ResolutionStep(resolvers[t].loaded_model, resolvers[t].model_name,
                      resolvers[t].tokenizer_name) = "tokenizer_name"
    /\ LET name == resolvers[t].tokenizer_name
       IN  IF pretrained_tokenizers[name] # NoEncoder
           THEN resolvers' = Resolved(t, pretrained_tokenizers[name],
                                      "tokenizer_name")
           ELSE resolvers' = [resolvers EXCEPT ![t].pc = "load_named"]
    /\ UNCHANGED <<pretrained_tokenizers, next_encoder, tokenizer_loads>>
    /\ UNCHANGED notResolveVars

\* lines 207-208: AutoTokenizer.from_pretrained(tokenizer_name) returns and
\* the encoder is stored, or it raises.
LoadNamed(t) ==
    /\ resolvers[t].pc = "load_named"
    /\ LET name == resolvers[t].tokenizer_name
           encoder == Encoder("pretrained", name, next_encoder)
       IN  \/ /\ resolvers' = Resolved(t, encoder, "tokenizer_name")
              /\ pretrained_tokenizers' =
                    [pretrained_tokenizers EXCEPT ![name] = encoder]
              /\ next_encoder' = next_encoder + 1
              /\ tokenizer_loads' = Append(tokenizer_loads, name)
           \/ /\ resolvers' = [resolvers EXCEPT ![t].pc = "except"]
              /\ UNCHANGED <<pretrained_tokenizers, next_encoder,
                             tokenizer_loads>>
    /\ UNCHANGED notResolveVars

\* lines 211-214: the except clause looks the default tokenizer up.
LookupDefault(t) ==
    /\ resolvers[t].pc = "except"
    /\ IF pretrained_tokenizers[default_tokenizer] # NoEncoder
       THEN resolvers' = Resolved(t, pretrained_tokenizers[default_tokenizer],
                                  "default")
       ELSE resolvers' = [resolvers EXCEPT ![t].pc = "load_default"]
    /\ UNCHANGED <<pretrained_tokenizers, next_encoder, tokenizer_loads>>
    /\ UNCHANGED notResolveVars

\* lines 215-216: AutoTokenizer.from_pretrained(default_tokenizer) returns
\* and the encoder is stored, or it raises out of truncate_messages.
LoadDefault(t) ==
    /\ resolvers[t].pc = "load_default"
    /\ LET encoder == Encoder("pretrained", default_tokenizer, next_encoder)
       IN  \/ /\ resolvers' = Resolved(t, encoder, "default")
              /\ pretrained_tokenizers' =
                    [pretrained_tokenizers EXCEPT
                        ![default_tokenizer] = encoder]
              /\ next_encoder' = next_encoder + 1
              /\ tokenizer_loads' = Append(tokenizer_loads, default_tokenizer)
           \/ /\ resolvers' = [resolvers EXCEPT ![t].pc = "raised"]
              /\ UNCHANGED <<pretrained_tokenizers, next_encoder,
                             tokenizer_loads>>
    /\ UNCHANGED notResolveVars

ResolveNext ==
    \/ \E t \in Resolvers : ResolveDirect(t)
    \/ \E t \in Resolvers : LookupNamed(t)
    \/ \E t \in Resolvers : LoadNamed(t)
    \/ \E t \in Resolvers : LookupDefault(t)
    \/ \E t \in Resolvers : LoadDefault(t)

-----------------------------------------------------------------------------
\* extract_questions (openai/gpt.py lines 21-89)

\* The user's message.
UserTexts == {<<>>, <<"q">>, <<" ", "q">>}

\* One element of a "queries" value: a string or something else (a number).
QueryItem(str, content) == [str |-> str, text |-> content]
QueryTexts == {<<>>, <<" ">>, <<"a">>, <<" ", "a", " ">>, <<"a", " ", "b">>}
QueryItems ==
    {QueryItem(TRUE, t) : t \in QueryTexts} \cup {QueryItem(FALSE, <<>>)}

\* What the model answered, as json.loads sees it: text that is no JSON, a
\* JSON value that is no object, an object without "queries", or an object
\* whose "queries" is null, a string or a list.
ModelResponse(kind, content, items) ==
    [kind |-> kind, text |-> content, items |-> items]
NoResponse == ModelResponse("none", <<>>, <<>>)
ModelResponses ==
    {ModelResponse(k, <<>>, <<>>) :
        k \in {"invalid", "not_object", "no_queries", "queries_null"}}
    \cup {ModelResponse("queries_string", t, <<>>) : t \in QueryTexts}
    \cup {ModelResponse("queries_list", <<>>, items) :
            items \in UNION {[1..n -> QueryItems] : n \in 0..MaxQueries}}

\* lines 76-89: json.loads or response["queries"] raises, the iteration of
\* the "queries" value raises (null), q.strip() raises (no string), or the
\* stripped non-empty elements are returned; a string is iterated character
\* by character.
Questions(text, resp) ==
    IF resp.kind \in {"invalid", "not_object", "no_queries", "queries_null"}
    THEN <<text>>
    ELSE LET queries == IF resp.kind = "queries_string"
                        THEN [i \in 1..Len(resp.text) |->
                                QueryItem(TRUE, <<resp.text[i]>>)]
                        ELSE resp.items
         IN  IF \E i \in 1..Len(queries) : ~queries[i].str
             THEN <<text>>
             ELSE LET kept == SelectSeq(queries,
                                        LAMBDA q : Strip(q.text) # <<>>)
                      stripped == [i \in 1..Len(kept) |-> Strip(kept[i].text)]
                  IN  IF stripped = <<>> THEN <<text>> ELSE stripped

ExtractInit ==
    /\ ext_text \in UserTexts
    /\ ext_response = NoResponse
    /\ ext_pc = "start"
    /\ questions = <<>>

\* extract_questions is not called.
ExtractIdle ==
    /\ ext_text = <<>>
    /\ ext_response = NoResponse
    /\ ext_pc = "idle"
    /\ questions = <<>>

\* lines 66-73: completion_with_backoff returns the model's answer, or
\* raises out of extract_questions.
Complete ==
    /\ ext_pc = "start"
    /\ \/ \E resp \in ModelResponses :
            /\ ext_response' = resp
            /\ ext_pc' = "responded"
       \/ /\ ext_pc' = "raised"
          /\ UNCHANGED ext_response
    /\ UNCHANGED <<ext_text, questions>>
    /\ UNCHANGED notExtractVars

\* lines 76-89
ExtractQueries ==
    /\ ext_pc = "responded"
    /\ questions' = Questions(ext_text, ext_response)
    /\ ext_pc' = "returned"
    /\ UNCHANGED <<ext_text, ext_response>>
    /\ UNCHANGED notExtractVars

ExtractNext == Complete \/ ExtractQueries

-----------------------------------------------------------------------------
\* ProcessLockAdapters.run_with_lock (adapters lines 429-478)

Callers == 1..MaxCallers
\* max_duration_in_seconds of a call, in ticks of the clock.
Durations == {1, 2}

\* A row of ProcessLock for the operation.
LockRow(pk, started_at, max_duration) ==
    [pk |-> pk, started_at |-> started_at, max_duration |-> max_duration]
\* ProcessLock.objects.filter(name=...).first()
FirstLock(rows) == CHOOSE row \in rows : \A other \in rows : row.pk <= other.pk
\* line 434: started_at + max_duration_in_seconds < now
Stale(row, time) == row.started_at + row.max_duration < time

NoCaller == [pc |-> "idle", max_duration |-> 0, seen |-> 0, lock |-> 0,
             locked_at |-> 0, executed |-> FALSE, success |-> FALSE,
             removed |-> {}]

\* Calls of run_with_lock for one operation; storage holds no lock or the
\* lock a process that died has left.
LockInit ==
    /\ process_locks \in {{}, {LockRow(1, 0, 1)}}
    /\ next_lock_id = Cardinality(process_locks) + 1
    /\ lock_time = 0
    /\ lock_calls \in [Callers ->
            {[pc |-> "start", max_duration |-> d, seen |-> 0, lock |-> 0,
              locked_at |-> 0, executed |-> FALSE, success |-> FALSE,
              removed |-> {}] :
                d \in Durations}]

\* No call of run_with_lock.
LockIdle ==
    /\ process_locks = {}
    /\ next_lock_id = 1
    /\ lock_time = 0
    /\ lock_calls = [c \in Callers |-> NoCaller]

\* lines 431-440, is_process_locked up to its answer: no lock, a stale lock
\* that is to be deleted, or a lock that is taken (line 449: return).
CheckLock(c) ==
    /\ lock_calls[c].pc = "start"
    /\ IF process_locks = {}
       THEN lock_calls' = [lock_calls EXCEPT ![c].pc = "set"]
       ELSE IF Stale(FirstLock(process_locks), lock_time)
       THEN lock_calls' = [lock_calls EXCEPT
                ![c].pc = "delete_stale",
                ![c].seen = FirstLock(process_locks).pk]
       ELSE lock_calls' = [lock_calls EXCEPT ![c].pc = "skipped"]
    /\ UNCHANGED <<process_locks, next_lock_id, lock_time>>
    /\ UNCHANGED notLockVars

\* line 437: process_lock.delete() of the stale row that was read.
DeleteStale(c) ==
    /\ lock_calls[c].pc = "delete_stale"
    /\ LET mine == {row \in process_locks : row.pk = lock_calls[c].seen}
       IN  /\ process_locks' = process_locks \ mine
           /\ lock_calls' = [lock_calls EXCEPT
                ![c].pc = "set",
                ![c].removed = @ \cup
                    {[pk |-> row.pk, stale |-> Stale(row, lock_time)] :
                        row \in mine}]
    /\ UNCHANGED <<next_lock_id, lock_time>>
    /\ UNCHANGED notLockVars

\* Faulty variant of SetLock: a second lock of the same name can be created.
SetLockNotUnique(c) ==
    /\ lock_calls[c].pc = "set"
    /\ process_locks' = process_locks \cup
            {LockRow(next_lock_id, lock_time, lock_calls[c].max_duration)}
    /\ next_lock_id' = next_lock_id + 1
    /\ lock_calls' = [lock_calls EXCEPT
            ![c].pc = "run", ![c].lock = next_lock_id,
            ![c].locked_at = lock_time, ![c].executed = TRUE]
    /\ UNCHANGED lock_time
    /\ UNCHANGED notLockVars

\* lines 456-459 and 464-466: ProcessLock.objects.create; the name is unique,
\* so with a lock stored it raises IntegrityError and func is not called.
SetLock(c) ==
    /\ lock_calls[c].pc = "set"
    /\ IF process_locks # {}
       THEN /\ lock_calls' = [lock_calls EXCEPT ![c].pc = "finally"]
            /\ UNCHANGED <<process_locks, next_lock_id>>
       ELSE /\ process_locks' =
                {LockRow(next_lock_id, lock_time, lock_calls[c].max_duration)}
            /\ next_lock_id' = next_lock_id + 1
            /\ lock_calls' = [lock_calls EXCEPT
                    ![c].pc = "run", ![c].lock = next_lock_id,
                    ![c].locked_at = lock_time,
                    ![c].executed = TRUE]
    /\ UNCHANGED lock_time
    /\ UNCHANGED notLockVars

\* lines 461-469: func returns, or raises an Exception that is caught.
RunFunc(c) ==
    /\ lock_calls[c].pc = "run"
    /\ \E ok \in BOOLEAN :
        lock_calls' = [lock_calls EXCEPT ![c].pc = "finally",
                                         ![c].success = ok]
    /\ UNCHANGED <<process_locks, next_lock_id, lock_time>>
    /\ UNCHANGED notLockVars

\* Faulty variant of RemoveLock: the lock is left when func has raised.
RemoveLockOnSuccess(c) ==
    /\ lock_calls[c].pc = "finally"
    /\ LET mine == {row \in process_locks :
                        /\ lock_calls[c].success
                        /\ lock_calls[c].lock # 0
                        /\ row.pk = lock_calls[c].lock}
       IN  /\ process_locks' = process_locks \ mine
           /\ lock_calls' = [lock_calls EXCEPT
                ![c].pc = "done",
                ![c].removed = @ \cup
                    {[pk |-> row.pk, stale |-> Stale(row, lock_time)] :
                        row \in mine}]
    /\ UNCHANGED <<next_lock_id, lock_time>>
    /\ UNCHANGED notLockVars

\* lines 470-478: the lock this call created is deleted; a call without one
\* deletes nothing.
RemoveLock(c) ==
    /\ lock_calls[c].pc = "finally"
    /\ LET mine == {row \in process_locks :
                        /\ lock_calls[c].lock # 0
                        /\ row.pk = lock_calls[c].lock}
       IN  /\ process_locks' = process_locks \ mine
           /\ lock_calls' = [lock_calls EXCEPT
                ![c].pc = "done",
                ![c].removed = @ \cup
                    {[pk |-> row.pk, stale |-> Stale(row, lock_time)] :
                        row \in mine}]
    /\ UNCHANGED <<next_lock_id, lock_time>>
    /\ UNCHANGED notLockVars

\* datetime.now advances.
LockTick ==
    /\ lock_time < MaxTime
    /\ lock_time' = lock_time + 1
    /\ UNCHANGED <<process_locks, next_lock_id, lock_calls>>
    /\ UNCHANGED notLockVars

LockNext ==
    \/ \E c \in Callers : CheckLock(c)
    \/ \E c \in Callers : DeleteStale(c)
    \/ \E c \in Callers : SetLock(c)
    \/ \E c \in Callers : RunFunc(c)
    \/ \E c \in Callers : RemoveLock(c)
    \/ LockTick

-----------------------------------------------------------------------------
\* Subscription state (database/adapters/__init__.py:162-170, 226-270).
\* Dates are whole days; a subscription is a record of the fields that
\* subscription_to_state reads.

\* renewal_date = None
NoDate == 0 - 1
\* Subscription.objects.filter(...).first() = None
NoSubscription ==
    [type |-> "none", is_recurring |-> FALSE, renewal_date |-> NoDate,
     created_at |-> 0]

\* line 168, Subscription.objects.acreate(user=user, type="trial"): the
\* other fields take the defaults of the model, not recurring and no
\* renewal date; created_at is the time of creation.
TrialSubscription(now) ==
    [type |-> "trial", is_recurring |-> FALSE, renewal_date |-> NoDate,
     created_at |-> now]

\* Subscription.Type
SubscriptionTypes == {"trial", "standard"}
\* the is_recurring argument: None, True or False
RecurringArgs == {"None", "True", "False"}
\* days from the call to the renewal date it passes
RenewalPeriods == {1, 2}
\* the renewal_date argument: None, False or a date
RenewalArgs(now) ==
    {[kind |-> "None", date |-> NoDate], [kind |-> "False", date |-> NoDate]}
        \cup {[kind |-> "date", date |-> now + p] : p \in RenewalPeriods}

\* lines 245-262; "TypeError" is the exception of None >= datetime at
\* line 254.
subscription_to_state(sub, now) ==
    IF sub = NoSubscription THEN "invalid"
    ELSE IF sub.type = "trial"
    THEN IF now - sub.created_at > TrialDays THEN "expired" ELSE "trial"
    ELSE IF sub.is_recurring
    THEN IF sub.renewal_date = NoDate THEN "TypeError"
         ELSE IF sub.renewal_date >= now THEN "subscribed"
         ELSE "invalid"
    ELSE IF sub.renewal_date = NoDate THEN "expired"
    ELSE IF sub.renewal_date >= now THEN "unsubscribed"
    ELSE "expired"

\* The user is unknown or was created today.
SubscriptionInit ==
    /\ subscription \in {NoSubscription, TrialSubscription(0)}
    /\ sub_now = 0
    /\ sub_reported = "none"

\* No user.
SubscriptionIdle ==
    /\ subscription = NoSubscription
    /\ sub_now = 0
    /\ sub_reported = "none"

\* lines 166-168, the subscription get_or_create_user_by_email leaves.
EnsureSubscription(sub, now) ==
    IF sub = NoSubscription THEN TrialSubscription(now) ELSE sub

\* lines 162-170, get_or_create_user_by_email.
GetOrCreateUser ==
    /\ subscription = NoSubscription
    /\ subscription' = EnsureSubscription(subscription, sub_now)
    /\ UNCHANGED <<sub_now, sub_reported>>
    /\ UNCHANGED notSubscriptionVars

\* lines 226-242, set_user_subscription.
SetUserSubscription(type, is_recurring, renewal_date) ==
    /\ LET sub == EnsureSubscription(subscription, sub_now)
       IN  subscription' =
               [sub EXCEPT
                   !.type = type,
                   !.is_recurring =
                       IF is_recurring = "None" THEN @
                       ELSE is_recurring = "True",
                   !.renewal_date =
                       IF renewal_date.kind = "False" THEN NoDate
                       ELSE IF renewal_date.kind = "None" THEN @
                       ELSE renewal_date.date]
    /\ UNCHANGED <<sub_now, sub_reported>>
    /\ UNCHANGED notSubscriptionVars

\* lines 265-270, get_user_subscription_state.
GetUserSubscriptionState ==
    /\ sub_reported' = subscription_to_state(subscription, sub_now)
    /\ UNCHANGED <<subscription, sub_now>>
    /\ UNCHANGED notSubscriptionVars

\* A day passes.
SubscriptionTick ==
    /\ sub_now < MaxDays
    /\ sub_now' = sub_now + 1
    /\ UNCHANGED <<subscription, sub_reported>>
    /\ UNCHANGED notSubscriptionVars

SubscriptionNext ==
    \/ GetOrCreateUser
    \/ \E type \in SubscriptionTypes, is_recurring \in RecurringArgs,
          renewal_date \in RenewalArgs(sub_now) :
            SetUserSubscription(type, is_recurring, renewal_date)
    \/ GetUserSubscriptionState
    \/ SubscriptionTick

-----------------------------------------------------------------------------
\* Specifications, one per component; the other components stay idle.

InitRelay ==
    /\ ConverseIdle /\ TruncateIdle /\ PromptIdle /\ RecordIdle
    /\ ResolveIdle /\ ExtractIdle /\ LockIdle /\ SubscriptionIdle
    /\ RelayInit
SpecRelay == InitRelay /\ [][RelayNext]_vars
\* The threads are scheduled fairly: a close() that was entered runs to its
\* end, and a consumer that iterates takes an item whenever the queue holds
\* one; nothing makes the producer call close() or the consumer go on.
SpecRelayFair ==
    /\ SpecRelay
    /\ WF_vars(CloseReferences) /\ WF_vars(CloseOnline) /\ WF_vars(CloseStop)
    /\ WF_vars(NextGet) /\ WF_vars(NextCallback) /\ WF_vars(NextRaise)

InitConverse ==
    /\ RelayIdle /\ TruncateIdle /\ PromptIdle /\ RecordIdle
    /\ ResolveIdle /\ ExtractIdle /\ LockIdle /\ SubscriptionIdle
    /\ ConverseInit
SpecConverse == InitConverse /\ [][ConverseNext]_vars

InitTruncate ==
    /\ RelayIdle /\ ConverseIdle /\ PromptIdle /\ RecordIdle
    /\ ResolveIdle /\ ExtractIdle /\ LockIdle /\ SubscriptionIdle
    /\ TruncateInit
SpecTruncate == InitTruncate /\ [][TruncateNext]_vars

InitPrompt ==
    /\ RelayIdle /\ ConverseIdle /\ TruncateIdle /\ RecordIdle
    /\ ResolveIdle /\ ExtractIdle /\ LockIdle /\ SubscriptionIdle
    /\ PromptInit
SpecPrompt == InitPrompt /\ [][PromptNext]_vars

InitRecord ==
    /\ RelayIdle /\ ConverseIdle /\ TruncateIdle /\ PromptIdle
    /\ ResolveIdle /\ ExtractIdle /\ LockIdle /\ SubscriptionIdle
    /\ RecordInit
SpecRecord == InitRecord /\ [][RecordNext]_vars

InitResolve ==
    /\ RelayIdle /\ ConverseIdle /\ TruncateIdle /\ PromptIdle
    /\ RecordIdle /\ ExtractIdle /\ LockIdle /\ SubscriptionIdle
    /\ ResolveInit
SpecResolve == InitResolve /\ [][ResolveNext]_vars

InitBuild ==
    /\ RelayIdle /\ ConverseIdle /\ TruncateIdle /\ RecordIdle
    /\ ResolveIdle /\ ExtractIdle /\ LockIdle /\ SubscriptionIdle
    /\ BuildInit
SpecBuild == InitBuild /\ [][BuildNext]_vars

InitExtract ==
    /\ RelayIdle /\ ConverseIdle /\ TruncateIdle /\ PromptIdle
    /\ RecordIdle /\ ResolveIdle /\ LockIdle /\ SubscriptionIdle
    /\ ExtractInit
SpecExtract == InitExtract /\ [][ExtractNext]_vars

InitLock ==
    /\ RelayIdle /\ ConverseIdle /\ TruncateIdle /\ PromptIdle
    /\ RecordIdle /\ ResolveIdle /\ ExtractIdle
    /\ SubscriptionIdle
    /\ LockInit
SpecLock == InitLock /\ [][LockNext]_vars

InitSubscription ==
    /\ RelayIdle /\ ConverseIdle /\ TruncateIdle /\ PromptIdle
    /\ RecordIdle /\ ResolveIdle /\ ExtractIdle /\ LockIdle
    /\ SubscriptionInit
SpecSubscription == InitSubscription /\ [][SubscriptionNext]_vars

-----------------------------------------------------------------------------
\* Properties of the relay.

\* The consumer has read the StopIteration sentinel.
SentinelRead == consumer \in {"callback", "raise", "ended"}
\* No close() call is in progress.
CloseIdle == producer \in {"ready", "done"}
InClose == producer \in {"close_references", "close_online", "close_stop"}

\* The text chunks among the items the consumer received, in order.
ReceivedText ==
    LET chunks == SelectSeq(received, LAMBDA it : it.kind = "chunk")
    IN  [i \in 1..Len(chunks) |-> chunks[i].data]

\* C1: with a completion callback, the callback is never invoked more than
\* once, and once the consumer has iterated to end-of-iteration it has been
\* invoked exactly once, however many times close() was called.
C1_CallbackExactlyOnce ==
    completion_func =>
        /\ Len(callbacks) <= 1
        /\ consumer = "ended" => Len(callbacks) = 1

\* close() was called twice, both calls returned, the consumer iterated to the
\* end and the callback ran once.
C1_Witness ==
    /\ completion_func
    /\ close_calls = 2
    /\ CloseIdle
    /\ consumer = "ended"
    /\ Len(callbacks) = 1

\* C2: every invocation of the completion callback gets the concatenation, in
\* send order, of the chunks passed to send(); trailers are not part of it.
C2_CallbackArgument ==
    \A i \in 1..Len(callbacks) : callbacks[i] = Flatten(sent)

\* The callback ran after two different non-empty chunks were sent and both
\* trailers were enqueued by close().
C2_Witness ==
    /\ Len(callbacks) = 1
    /\ Len(sent) = 2
    /\ sent[1] # <<>> /\ sent[2] # <<>> /\ sent[1] # sent[2]
    /\ compiled_references # <<>>
    /\ online_results # <<>>
    /\ callbacks[1] = sent[1] \o sent[2]

\* C3: under every interleaving of producer and consumer the text chunks the
\* consumer has received are a prefix of the chunks sent, and once it has
\* read the sentinel they are exactly the chunks sent, in order.
C3_ChunksInOrder ==
    /\ IsPrefix(ReceivedText, sent)
    /\ SentinelRead => ReceivedText = sent

\* The consumer reached the end having received two different chunks.
C3_Witness ==
    /\ consumer = "ended"
    /\ Len(sent) = 2
    /\ sent[1] # sent[2]
    /\ ReceivedText = sent

\* C4 (as claimed): when the consumer stopped iterating early and the producer
\* has sent, closed and returned, the completion callback has been invoked
\* once.
C4_CallbackAfterAbandon ==
    (completion_func /\ consumer = "abandoned" /\ producer = "done"
        /\ sent # <<>> /\ close_calls >= 1)
    => Len(callbacks) = 1

\* C5 (as claimed): a second or later call of close() enqueues nothing.
C5_SecondCloseNoOp ==
    [][(close_calls >= 2 /\ InClose) => Len(queue') <= Len(queue)]_vars

\* C6: the completion callback has been invoked, and has returned, before
\* StopIteration is raised to the consumer.
C6_CallbackBeforeStop ==
    (completion_func /\ consumer \in {"raise", "ended"})
    => Len(callbacks) >= 1

\* The callback has returned and StopIteration is about to be raised.
C6_Witness ==
    /\ completion_func
    /\ consumer = "raise"
    /\ Len(callbacks) = 1

\* The items of a sequence before its first StopIteration sentinel.
UpToStop(items) ==
    LET stops == {i \in 1..Len(items) : items[i] = StopItem}
    IN  IF stops = {} THEN items
        ELSE SubSeq(items, 1, (CHOOSE i \in stops : \A j \in stops : i <= j) - 1)
\* What a consumer is to receive: the chunks sent, the trailer of a non-empty
\* retrieval context, the trailer of a non-empty online context.
ExpectedStream ==
    [i \in 1..Len(sent) |-> Chunk(sent[i])]
    \o (IF compiled_references # <<>>
        THEN <<RefsTrailer(compiled_references)>> ELSE <<>>)
    \o (IF online_results # <<>>
        THEN <<OnlineTrailer(online_results)>> ELSE <<>>)
\* The first close() call has returned.
FirstCloseDone == close_calls >= 1 /\ ~(close_calls = 1 /\ InClose)

\* C26: what the consumer has received and what waits in the queue before
\* the sentinel is at every moment a prefix of: the chunks sent, then the
\* retrieval-context trailer iff that context is non-empty, then the
\* online-context trailer iff that context is non-empty; once close() has
\* returned it is all of that, followed by the sentinel, and a consumer that
\* read the sentinel has received exactly that.
C26_CloseTrailersThenStop ==
    /\ ~SentinelRead
        => IsPrefix(received \o UpToStop(queue), ExpectedStream)
    /\ (FirstCloseDone /\ ~SentinelRead)
        => /\ received \o UpToStop(queue) = ExpectedStream
           /\ \E i \in 1..Len(queue) : queue[i] = StopItem
    /\ SentinelRead => received = ExpectedStream

\* The consumer reached the end after two chunks and both trailers.
C26_Witness ==
    /\ consumer = "ended"
    /\ Len(sent) = 2
    /\ compiled_references # <<>>
    /\ online_results # <<>>
    /\ Len(received) = 4
    /\ received[3] = RefsTrailer(compiled_references)
    /\ received[4] = OnlineTrailer(online_results)

\* C27: the accumulated text is the concatenation of the chunks sent so far;
\* each step leaves it as it is or extends it, and only a send() changes it:
\* neither __next__ nor close() does.
C27_ResponseOnlyGrows ==
    [][/\ IsPrefix(response, response')
       /\ response' = Flatten(sent')
       /\ sent' = sent => response' = response]_vars

\* The producer sent two non-empty chunks and returned without close(): the
\* text of both is in the buffer.
C27_Witness ==
    /\ producer = "done"
    /\ close_calls = 0
    /\ Len(sent) = 2
    /\ sent[1] # <<>>
    /\ sent[2] # <<>>
    /\ response = sent[1] \o sent[2]

-----------------------------------------------------------------------------
\* Properties of converse.

ShortCircuitNotes ==
    conversation_commands = <<"notes">> /\ references = <<>>
ShortCircuitOnline ==
    conversation_commands = <<"online">>
        /\ conv_online_results \in {"None", "empty"}
CannedText ==
    IF ShortCircuitNotes THEN no_notes_found ELSE no_online_results_found

-----------------------------------------------------------------------------
\* Properties of truncate_messages.

\* The messages argument without its system message, newest first.
NonSystemInput ==
    IF SystemIndex(input_messages) = 0 THEN input_messages
    ELSE RemoveAt(input_messages, SystemIndex(input_messages))

\* Token count of the system message of the argument, 0 without one.
SystemInputTokens ==
    IF SystemIndex(input_messages) = 0 THEN 0
    ELSE MessageTokens(input_messages[SystemIndex(input_messages)])

\* The returned list without the system message.
NonSystemResult == SelectSeq(result, LAMBDA m : m.role # "system")

\* Token cost of the final line of the most recent message.
TailCost ==
    IF NonSystemInput = <<>> \/ ~IsStr(NonSystemInput[1].content) THEN 0
    ELSE Len(Encode(LastLine(NonSystemInput[1].content)))

\* The k most recent messages fit the budget next to the system message.
Fits(k) ==
    CountTokens(SubSeq(NonSystemInput, 1, k)) + SystemInputTokens
        <= max_prompt_size

\* The number of messages that survive eviction: the largest k >= 1 that fits,
\* 1 when none does, 0 for an empty list.
KeepCount ==
    LET fit == {k \in 1..Len(NonSystemInput) : Fits(k)}
    IN  IF NonSystemInput = <<>> THEN 0
        ELSE IF fit = {} THEN 1
        ELSE CHOOSE k \in fit : \A j \in fit : j <= k

\* C8: whenever max_prompt_size is at least the token cost of the final line
\* of the most recent message, the returned messages, system message
\* excluded, hold at most max_prompt_size tokens.
C8_WithinBudget ==
    (trunc_pc = "done" /\ max_prompt_size >= TailCost)
    => CountTokens(NonSystemResult) <= max_prompt_size

\* A message of several lines was cut to fit next to a system message, its
\* last line kept, and the result uses the whole budget left.
C8_Witness ==
    /\ trunc_pc = "done"
    /\ system_message # NoMessage
    /\ max_prompt_size >= TailCost
    /\ TailCost > 0
    /\ Len(NonSystemInput) >= 2
    /\ Len(NonSystemResult) = 1
    /\ NonSystemResult[1].content # NonSystemInput[1].content
    /\ LastBreak(NonSystemResult[1].content) > 1
    /\ CountTokens(NonSystemResult) = max_prompt_size - system_message_tokens

\* C9: eviction removes whole messages from the end of the list (the oldest),
\* so during the loop the list is a prefix of the argument, and after it the
\* survivors are the k most recent messages for the largest k >= 1 that fits
\* the budget (k = 1 when none fits); only the newest one may then be cut.
C9_EvictOldestFirst ==
    /\ trunc_pc = "loop"
        => IsPrefix(messages, NonSystemInput) /\ Len(messages) >= KeepCount
    /\ trunc_pc \in {"return", "done"}
        => /\ Len(messages) = KeepCount
           /\ \A i \in 2..Len(messages) : messages[i] = NonSystemInput[i]
           /\ KeepCount >= 1 => messages[1].role = NonSystemInput[1].role
           /\ (KeepCount >= 1 /\ Fits(KeepCount))
                => messages = SubSeq(NonSystemInput, 1, KeepCount)

\* The scenario of the specification, scaled: three history messages of equal
\* cost and a newer message over budget; two are evicted and the rest fits
\* exactly: newest message, one history message, system message.
C9_Witness ==
    /\ trunc_pc = "done"
    /\ system_message # NoMessage
    /\ Len(NonSystemInput) = 4
    /\ \A i \in 2..4 : MessageTokens(NonSystemInput[i]) = 2
    /\ tokens + system_message_tokens = max_prompt_size
    /\ result = <<NonSystemInput[1], NonSystemInput[2], system_message>>

\* C10 (as claimed): truncate_messages never raises.
C10_NeverRaises == trunc_pc # "raised"


\* The system message of the argument, NoMessage without one.
SystemInput ==
    IF SystemIndex(input_messages) = 0 THEN NoMessage
    ELSE input_messages[SystemIndex(input_messages)]

NewestCut ==
    /\ trunc_pc \in {"return", "done"}
    /\ KeepCount = 1
    /\ ~Fits(1)
    /\ IsStr(NonSystemInput[1].content)
\* The newest message as passed, and what is left of it.
OriginalContent == NonSystemInput[1].content
CutContent == messages[1].content
\* The budget left after the system message.
RemainingTokens == max_prompt_size - SystemInputTokens
\* The text ends with the given text.
EndsWith(text, end) ==
    /\ Len(text) >= Len(end)
    /\ SubSeq(text, Len(text) - Len(end) + 1, Len(text)) = end
\* The decodings of the token-prefixes of a text.
TokenPrefixes(text) ==
    {Decode(SubSeq(Encode(text), 1, k)) : k \in 0..Len(Encode(text))}
\* The line break and the last line of the newest message as passed.
BreakAndLastLine == <<"\n">> \o LastLine(OriginalContent)

\* C12 (as claimed): when the budget left after the system message exceeds
\* the token cost of the last line, the cut message ends with the last line
\* verbatim and the part before it is a token-prefix of the original body.
C12_LastLineVerbatim ==
    (NewestCut /\ RemainingTokens > TailCost)
    => /\ EndsWith(CutContent, LastLine(OriginalContent))
       /\ LinesBeforeLast(CutContent)
            \in TokenPrefixes(LinesBeforeLast(OriginalContent))

\* C12 (amended): when the budget left after the system message exceeds the
\* token cost of a line break followed by the last line, the cut message is
\* the whitespace-stripped decoding of the token-prefix of the original body
\* that uses the rest of the budget, then a line break, then the last line
\* verbatim; otherwise it is the whitespace-stripped decoding of a
\* token-prefix of the line break followed by the last line, of as many
\* tokens as the budget left when that is not negative.
C12_LastLineKept ==
    NewestCut =>
        LET body == Encode(LinesBeforeLast(OriginalContent))
            tail == Encode(BreakAndLastLine)
        IN  IF RemainingTokens > Len(tail)
            THEN /\ EndsWith(CutContent, BreakAndLastLine)
                 /\ LastLine(CutContent) = LastLine(OriginalContent)
                 /\ LinesBeforeLast(CutContent) =
                        Strip(Decode(SubSeq(body, 1,
                            Min(RemainingTokens - Len(tail), Len(body)))))
                 /\ Len(Encode(CutContent)) <= RemainingTokens
            ELSE \E k \in 0..Len(tail) :
                    /\ CutContent = Strip(Decode(SubSeq(tail, 1, k)))
                    /\ RemainingTokens >= 0 => k = RemainingTokens

\* A message of two lines was cut: its body lost tokens, its last line is
\* whole.
C12_Witness ==
    /\ NewestCut
    /\ trunc_pc = "done"
    /\ RemainingTokens > Len(Encode(BreakAndLastLine))
    /\ LastLine(CutContent) = LastLine(OriginalContent)
    /\ LinesBeforeLast(CutContent) # <<>>
    /\ LinesBeforeLast(CutContent) # LinesBeforeLast(OriginalContent)

\* The argument is within the budget, system message included.
Compliant ==
    CountTokens(NonSystemInput) + SystemInputTokens <= max_prompt_size

\* C13: a list whose token cost plus the cost of its system message is at
\* most max_prompt_size is returned unchanged, the same messages with the
\* same contents in the same order; so is a returned list that is passed to
\* truncate_messages again.
C13_Idempotent ==
    (trunc_pc = "done" /\ Compliant) => result = input_messages

\* A returned list of several messages, the budget used up exactly, was
\* passed again and came back as it was.
C13_Witness ==
    /\ trunc_pc = "done"
    /\ reapplied
    /\ Compliant
    /\ CountTokens(NonSystemInput) + SystemInputTokens = max_prompt_size
    /\ Len(NonSystemInput) >= 2
    /\ SystemInput # NoMessage
    /\ result = input_messages

\* C28 (as claimed): a call without any non-system message returns, for
\* every max_prompt_size, the system message alone when there is one and the
\* empty list when there is none.
C28_ZeroMessages ==
    (NonSystemInput = <<>> /\ trunc_pc \in {"done", "raised"})
    => /\ trunc_pc = "done"
       /\ result = (IF SystemInput # NoMessage
                    THEN <<SystemInput>> ELSE <<>>)

\* C29 (as claimed): the surviving non-system messages are returned oldest
\* survivor first and newest last, then the system message.
C29_ChronologicalOrder ==
    trunc_pc = "done" =>
        LET n == Len(NonSystemResult)
        IN  /\ \A i \in 1..(n - 1) :
                    NonSystemResult[i] = NonSystemInput[n + 1 - i]
            /\ SystemInput # NoMessage => result[Len(result)] = SystemInput

\* C29 (amended): the surviving non-system messages are returned in the
\* order of the argument, newest message first and oldest survivor last, then
\* the system message as the last element.
C29_ArgumentOrder ==
    trunc_pc = "done" =>
        LET n == Len(NonSystemResult)
        IN  /\ Len(result) = n + (IF SystemInput # NoMessage THEN 1 ELSE 0)
            /\ \A i \in 1..n : result[i] = NonSystemResult[i]
            /\ \A i \in 2..n : result[i] = NonSystemInput[i]
            /\ n >= 1 => result[1].role = NonSystemInput[1].role
            /\ SystemInput # NoMessage => result[Len(result)] = SystemInput

\* Three messages of different texts came back as they were passed, the
\* newest first, and the system message after them.
C29_Witness ==
    /\ trunc_pc = "done"
    /\ ~reapplied
    /\ Len(NonSystemInput) = 3
    /\ NonSystemInput[1].content # NonSystemInput[3].content
    /\ SystemInput # NoMessage
    /\ result = NonSystemInput \o <<SystemInput>>

-----------------------------------------------------------------------------
\* Properties of generate_chatml_messages_with_context.

\* The loop of lines 166-169 is over: rest_backnforths is the history.
HistoryBuilt == gen_pc \in {"assemble", "truncate", "called"}

\* The messages of the j-th turn of a log, its answer first.
PairMessages(log, j) ==
    <<Message("assistant", Render(log[2 * j])),
      Message("user", Render(log[2 * j - 1]))>>
RECURSIVE RecentPairs(_, _, _)
\* The messages of m turns of a log, from the j-th turn backwards.
RecentPairs(log, j, m) ==
    IF m = 0 \/ j = 0 THEN <<>>
    ELSE PairMessages(log, j) \o RecentPairs(log, j - 1, m - 1)
\* The number of turns of a log that have their answer.
CompletedPairs(log) == Len(log) \div 2
\* The most recent completed turns of a log, at most lookback of them, the
\* most recent first.
ExpectedHistory(log, lookback) ==
    RecentPairs(log, CompletedPairs(log),
                Min(Max(lookback, 0), CompletedPairs(log)))

\* C14 (as claimed): a log of odd length ends with a turn that has no answer
\* yet; no message of the history carries the text of that entry, and the
\* history is the one of the log without it.
C14_InFlightTurnExcluded ==
    (HistoryBuilt /\ Len(conversation_log) % 2 = 1)
    => /\ \A k \in 1..Len(rest_backnforths) :
            rest_backnforths[k].content
                # Render(conversation_log[Len(conversation_log)])
       /\ rest_backnforths =
            ExpectedHistory(SubSeq(conversation_log, 1,
                                   Len(conversation_log) - 1),
                            lookback_turns)

\* C15 (as claimed): the history is made of pairs; in each the message tagged
\* user carries the text of an entry written by the user and the message
\* tagged assistant the text of the entry right after it, written by the
\* assistant.
C15_PairsUserThenAssistant ==
    HistoryBuilt =>
        /\ Len(rest_backnforths) % 2 = 0
        /\ \A k \in 1..(Len(rest_backnforths) \div 2) :
            \E i \in 1..(Len(conversation_log) - 1) :
                /\ conversation_log[i].by = "you"
                /\ conversation_log[i + 1].by = "khoj"
                /\ rest_backnforths[2 * k]
                        = Message("user", Render(conversation_log[i]))
                /\ rest_backnforths[2 * k - 1]
                        = Message("assistant",
                                  Render(conversation_log[i + 1]))

\* C16 (as claimed): the history is exactly the min(lookback_turns, number
\* of completed pairs) most recent completed pairs of the log, the most
\* recent first, none skipped, and never more than lookback_turns pairs.
C16_MostRecentPairs ==
    HistoryBuilt =>
        /\ rest_backnforths
                = ExpectedHistory(conversation_log, lookback_turns)
        /\ Len(rest_backnforths) <= 2 * Max(lookback_turns, 0)

\* C17: without an override and without a loaded model the budget is the
\* entry of the table for the model name, 2000 for a model the table lacks,
\* and lookback_turns is the budget divided by 750, rounded down: 0 when the
\* budget is below 750.
C17_TableBudget ==
    (gen_pc # "start" /\ gen_pc # "idle" /\ ~override.given
        /\ loaded_model = 0)
    => /\ model_name \in {"gpt-3.5-turbo", "gpt-3.5-turbo-0125"}
            => gen_max_prompt_size = 12000 /\ lookback_turns = 16
       /\ model_name \in {"gpt-4-0125-preview", "gpt-4-turbo-preview"}
            => gen_max_prompt_size = 20000 /\ lookback_turns = 26
       /\ model_name \in {"TheBloke/Mistral-7B-Instruct-v0.2-GGUF",
                           "NousResearch/Hermes-2-Pro-Mistral-7B-GGUF"}
            => gen_max_prompt_size = 3500 /\ lookback_turns = 4
       /\ model_name = "unknown-model"
            => gen_max_prompt_size = 2000 /\ lookback_turns = 2
       /\ 750 * lookback_turns <= gen_max_prompt_size
       /\ gen_max_prompt_size < 750 * (lookback_turns + 1)
       /\ gen_max_prompt_size < 750 => lookback_turns = 0

\* A model the table lacks: the budget is 2000 and two turns of history are
\* handed to truncate_messages with it.
C17_Witness ==
    /\ gen_pc = "called"
    /\ ~override.given
    /\ loaded_model = 0
    /\ model_name = "unknown-model"
    /\ lookback_turns = 2
    /\ Len(rest_backnforths) = 4
    /\ truncate_call.max_prompt_size = 2000

\* C18 (as claimed): an override, whatever its value, 0 included, is the
\* budget of the lookback and of the truncation.
C18_OverrideVerbatim ==
    (gen_pc # "start" /\ gen_pc # "idle" /\ override.given)
    => /\ gen_max_prompt_size = override.value
       /\ lookback_turns = override.value \div 750
       /\ truncate_call.made
            => truncate_call.max_prompt_size = override.value

-----------------------------------------------------------------------------
\* Properties of save_to_conversation_log.

\* The turn of a request: the entry of the user, then the entry of khoj.
Turn(r) ==
    <<Entry("you", Question(r), <<>>), Entry("khoj", Response(r), <<>>)>>

\* C19: recording a turn puts the log the request holds, every entry where
\* it was, followed by the entry of the user and the entry of khoj, into one
\* conversation, with one save; no other conversation changes.
C19_AppendsOneTurn ==
    [][\A r \in Requests :
        (requests[r].pc = "read" /\ requests'[r].pc = "done")
        => /\ saves' = saves + 1
           /\ \E id \in ConvIds :
                /\ conversations'[id].conversation_log
                        = requests[r].meta_log \o Turn(r)
                /\ \A other \in ConvIds \ {id} :
                        conversations'[other] = conversations[other]]_vars

\* A request read a log of one turn and recorded its own: the conversation
\* holds both turns, the older one first.
C19_Witness ==
    \E r \in Requests, id \in ConvIds :
        /\ requests[r].pc = "done"
        /\ Len(requests[r].meta_log) = 2
        /\ saves = 2
        /\ conversations[id].conversation_log
                = requests[r].meta_log \o Turn(r)

RECURSIVE IsSubsequence(_, _)
\* The elements of the first sequence are in the second, in the same order.
IsSubsequence(small, large) ==
    IF small = <<>> THEN TRUE
    ELSE IF large = <<>> THEN FALSE
    ELSE IF Head(small) = Head(large)
         THEN IsSubsequence(Tail(small), Tail(large))
         ELSE IsSubsequence(small, Tail(large))

\* C20 (as claimed): the persisted log is append-only under every
\* interleaving of record operations: as long as a conversation is not
\* deleted, each save keeps every entry persisted before, in the same order.
C20_AppendOnly ==
    [][\A id \in ConvIds :
        (conversations[id] # NoConversation
            /\ conversations'[id] # NoConversation)
        => IsSubsequence(conversations[id].conversation_log,
                         conversations'[id].conversation_log)]_vars

\* C25: every stored log holds whole turns only: an even number of entries,
\* "you" and "khoj" in turn, and each entry of a user is followed by the
\* answer of the same request, so both reached storage in the same save.
C25_WholeTurns ==
    \A id \in ConvIds :
        LET log == conversations[id].conversation_log
        IN  /\ Len(log) % 2 = 0
            /\ \A j \in 1..(Len(log) \div 2) :
                \E r \in Requests :
                    /\ log[2 * j - 1] = Turn(r)[1]
                    /\ log[2 * j] = Turn(r)[2]

\* A stored log of two turns.
C25_Witness ==
    \E id \in ConvIds :
        /\ Len(conversations[id].conversation_log) = 4
        /\ conversations[id].conversation_log[1].by = "you"
        /\ conversations[id].conversation_log[4].by = "khoj"

-----------------------------------------------------------------------------
\* Properties of the tokenizer resolution

ResolvedCalls == {t \in Resolvers : resolvers[t].pc = "done"}

\* The call t asked for a hosted model.
Hosted(t) == StartsWithGpt(resolvers[t].model_name)

\* C21: tokenizer resolution never raises to the caller, whatever lookup or
\* load fails, the load of the default tokenizer included.
C21_NeverRaises == \A t \in Resolvers : resolvers[t].pc # "raised"

\* C22: the first matching step wins: the loaded model's own tokenizer, else
\* the hosted provider's for a "gpt-" model name, else the explicit
\* tokenizer_name, else the local model for model_name (each replaced by the
\* default tokenizer when it fails); an explicit tokenizer_name is never used
\* when a loaded model is given or the model name is a hosted one.
C22_FirstMatchWins ==
    /\ \A t \in Resolvers :
        resolvers[t].pc = "load_named" =>
            /\ ~resolvers[t].loaded_model
            /\ ~Hosted(t)
            /\ resolvers[t].tokenizer_name # <<>>
    /\ \A t \in ResolvedCalls :
        LET call == resolvers[t]
            won == IF call.loaded_model THEN "loaded_model"
                   ELSE IF Hosted(t) THEN "tiktoken"
                   ELSE IF call.tokenizer_name # <<>> THEN "tokenizer_name"
                   ELSE "download_model"
        IN  /\ call.resolved_by \in {won, "default"}
            /\ (call.loaded_model \/ Hosted(t)) =>
                    call.resolved_by # "tokenizer_name"
            /\ call.resolved_by = "tokenizer_name" =>
                    /\ call.encoder.source = "pretrained"
                    /\ call.encoder.id = call.tokenizer_name
            /\ call.resolved_by = "default" =>
                    /\ call.encoder.source = "pretrained"
                    /\ call.encoder.id = default_tokenizer
            /\ call.resolved_by \in {"loaded_model", "tiktoken",
                                     "download_model"} =>
                    /\ call.encoder.source = call.resolved_by
                    /\ call.encoder.id = call.model_name

\* A hosted model and a loaded model were each resolved while an explicit
\* tokenizer_name was given, and another call used its explicit name.
C22_Witness ==
    \E t, u \in ResolvedCalls :
        /\ ~resolvers[t].loaded_model /\ Hosted(t)
        /\ resolvers[t].tokenizer_name # <<>>
        /\ resolvers[t].resolved_by = "tiktoken"
        /\ resolvers[u].resolved_by = "tokenizer_name"

\* C23: all calls that resolve one tokenizer name get the same encoder
\* object, and the cache still holds that object: an entry is never replaced
\* or removed, also when two calls resolve an uncached name at once.
C23_OneEncoderPerName ==
    \A t \in ResolvedCalls :
        resolvers[t].encoder.source = "pretrained" =>
            /\ pretrained_tokenizers[resolvers[t].encoder.id]
                    = resolvers[t].encoder
            /\ \A u \in ResolvedCalls :
                    resolvers[u].encoder.id = resolvers[t].encoder.id =>
                        resolvers[u].encoder = resolvers[t].encoder

\* C30: a successful load at step 3, 4 or 5 leaves the loaded encoder in the
\* cache under its name, so no name is loaded twice; steps 1 and 2 leave the
\* cache alone.
C30_LoadsAreCached ==
    /\ \A t \in ResolvedCalls :
        resolvers[t].resolved_by \in {"tokenizer_name", "download_model",
                                      "default"} =>
            pretrained_tokenizers[resolvers[t].encoder.id] # NoEncoder
    /\ (\A u \in Resolvers : resolvers[u].resolved_by
                    \in {"none", "loaded_model", "tiktoken"}) =>
            pretrained_tokenizers = [id \in TokenizerIds |-> NoEncoder]

-----------------------------------------------------------------------------
\* Properties of extract_questions

\* The model's answer is an object whose "queries" is a list of strings.
HasQueriesList ==
    /\ ext_response.kind = "queries_list"
    /\ \A i \in 1..Len(ext_response.items) : ext_response.items[i].str

\* The non-empty stripped strings among the elements of the "queries" list.
StrippedQueries ==
    LET kept == SelectSeq(ext_response.items,
                          LAMBDA q : q.str /\ Strip(q.text) # <<>>)
    IN  [i \in 1..Len(kept) |-> Strip(kept[i].text)]

\* C24: extract_questions returns the one-element list of the user's text
\* when the model's answer is no JSON, has no "queries" list or yields no
\* non-empty query, and the non-empty list of stripped queries otherwise; the
\* result is never empty.
C24_QueriesOrText ==
    ext_pc = "returned" =>
        /\ questions # <<>>
        /\ questions = IF HasQueriesList /\ StrippedQueries # <<>>
                       THEN StrippedQueries
                       ELSE <<ext_text>>

-----------------------------------------------------------------------------
\* Properties of the rendered history

\* The "Notes:" block appended for a context.
NotesBlock(context) ==
    <<"\n", "\n", " ", "N", "o", "t", "e", "s", ":", "\n">>
        \o <<"[", "'">> \o context \o <<"'", "]">>

\* C35: in the encoded history an entry with retrieval context is its raw
\* text followed by a "Notes:" block holding the context, and an entry
\* without context is its raw text alone, nothing appended.
C35_RawTextOrNotes ==
    gen_pc \in {"pair", "assemble", "truncate", "called"} =>
        \A i \in 1..Len(conversation_log) :
            chat_logs[i] =
                IF conversation_log[i].context # <<>>
                THEN conversation_log[i].message
                        \o NotesBlock(conversation_log[i].context)
                ELSE conversation_log[i].message

-----------------------------------------------------------------------------
\* Properties of the prompt that is returned

\* The messages of the completed turns of a log, the oldest first, each
\* user message directly before its answer.
Chronological(log) ==
    [i \in 1..(2 * CompletedPairs(log)) |->
        Message(IF i % 2 = 1 THEN "user" ELSE "assistant", Render(log[i]))]

IsSuffix(s, t) ==
    Len(s) <= Len(t) /\ SubSeq(t, Len(t) - Len(s) + 1, Len(t)) = s

\* The returned prompt without its system message and its new user message.
ReturnedHistory ==
    SubSeq(gen_returned,
           IF gen_system_message # <<>> THEN 2 ELSE 1,
           Len(gen_returned) - (IF user_message # <<>> THEN 1 ELSE 0))

\* C31: the returned prompt is in chronological order: the system message,
\* when there is one, comes first; the surviving history follows, the oldest
\* first, each user message directly before its answer; the new user message
\* comes last; an empty user message or system message is left out.
C31_ChronologicalPrompt ==
    gen_pc = "returned" =>
        /\ gen_system_message # <<>> =>
                /\ gen_returned # <<>>
                /\ gen_returned[1] = Message("system", gen_system_message)
        /\ \A i \in 1..Len(gen_returned) :
                gen_returned[i].role = "system" =>
                    gen_system_message # <<>> /\ i = 1
        /\ user_message # <<>> =>
                /\ gen_returned # <<>>
                /\ gen_returned[Len(gen_returned)].role = "user"
                /\ \/ gen_returned[Len(gen_returned)].content = user_message
                   \/ ReturnedHistory = <<>>
        /\ \/ IsSuffix(ReturnedHistory, Chronological(conversation_log))
           \/ /\ user_message = <<>>
              /\ Len(ReturnedHistory) = 1
              /\ ReturnedHistory[1].role = "assistant"

\* The same for the logs in which every turn has its answer.
ChronologicalForWholeTurns ==
    Len(conversation_log) % 2 = 0 => C31_ChronologicalPrompt

-----------------------------------------------------------------------------
\* Properties of the message that is cut

\* C32: the one message left, when it is cut, holds at most
\* max(0, max_prompt_size - system_message_tokens) tokens; it is empty when
\* the system message alone costs at least max_prompt_size; and a smaller
\* budget never gives a longer message than a larger one.
C32_WithinRemainingBudget ==
    NewestCut =>
        /\ Len(Encode(CutContent)) <= Max(0, RemainingTokens)
        /\ SystemInputTokens >= max_prompt_size => CutContent = <<>>
        /\ \A smaller \in PromptSizes :
                smaller <= max_prompt_size =>
                    Len(Encode(TruncatedContent(OriginalContent, smaller,
                                                SystemInputTokens)))
                        <= Len(Encode(CutContent))

-----------------------------------------------------------------------------
\* Termination of the consumer

\* C33: once close() has been called, a consumer that keeps iterating
\* reaches the end of the iteration; and no consumer reaches it before
\* close() has been called, so without close() the consumer stays blocked.
C33_EndsAfterClose ==
    /\ [](SentinelRead => close_calls > 0)
    /\ (close_calls > 0) ~> (consumer \in {"ended", "abandoned"})

\* The consumer read chunks, then the sentinel of a close(), and ended.
C33_Witness ==
    /\ consumer = "ended"
    /\ close_calls > 0
    /\ received # <<>>
    /\ queue = <<>>

-----------------------------------------------------------------------------
\* Frame of save_conversation

\* The conversations a step changed.
ChangedConversations ==
    {id \in ConvIds : conversations'[id] # conversations[id]}

\* C34: a call of save_conversation changes one conversation and only one of
\* the given user: the one with the conversation_id when the user has it,
\* without an id the one of the user updated last, and a new one when there
\* is no such conversation; every other conversation keeps its log, slug and
\* timestamp.
C34_SavesOneOwnConversation ==
    [][saves' = saves + 1 =>
        \E r \in Requests :
            /\ requests[r].pc = "read" /\ requests'[r].pc = "done"
            /\ LET user == requests[r].user
                   wanted == requests[r].conversation_id
                   own == {id \in ConvIds :
                            /\ conversations[id] # NoConversation
                            /\ conversations[id].user = user}
               IN  /\ Cardinality(ChangedConversations) = 1
                   /\ \A id \in ChangedConversations :
                        /\ conversations'[id].user = user
                        /\ IF wanted # 0 /\ wanted \in own
                           THEN id = wanted
                           ELSE IF wanted = 0 /\ own # {}
                           THEN /\ id \in own
                                /\ \A other \in own :
                                    conversations[other].updated_at
                                        <= conversations[id].updated_at
                           ELSE conversations[id] = NoConversation]_vars

\* A turn was saved to one conversation while a conversation of another
\* user and an older one of the same user were stored.
C34_Witness ==
    /\ saves > 0
    /\ \E id, older, foreign \in ConvIds :
        /\ conversations[id] # NoConversation
        /\ conversations[older] # NoConversation
        /\ conversations[foreign] # NoConversation
        /\ conversations[id].conversation_log # <<>>
        /\ conversations[older].user = conversations[id].user
        /\ conversations[older].updated_at < conversations[id].updated_at
        /\ conversations[older].conversation_log = <<>>
        /\ LockIdle /\ conversations[foreign].user # conversations[id].user

-----------------------------------------------------------------------------
\* Properties of run_with_lock

\* The calls that execute func.
Executing == {c \in Callers : lock_calls[c].pc = "run"}
\* The call executes func for longer than its max_duration_in_seconds.
Overrun(c) ==
    /\ c \in Executing
    /\ lock_calls[c].locked_at + lock_calls[c].max_duration < lock_time
\* The call is over.
Finished(c) == lock_calls[c].pc \in {"skipped", "done"}

\* C36: while no holder runs longer than its max_duration_in_seconds, at
\* most one call executes func at any moment, whatever the interleaving; a
\* call that finds the lock taken or fails to create it never executes func.
C36_OneHolder ==
    /\ (\A c \in Callers : ~Overrun(c)) => Cardinality(Executing) <= 1
    /\ \A c \in Callers :
        (\/ lock_calls[c].pc = "skipped"
         \/ lock_calls[c].pc \in {"finally", "done"} /\ lock_calls[c].lock = 0)
            => ~lock_calls[c].executed

\* One call executes func while another one failed to create the lock.
C36_Witness ==
    \E c, d \in Callers :
        /\ c \in Executing /\ ~Overrun(c)
        /\ lock_calls[d].pc = "finally"
        /\ lock_calls[d].lock = 0

\* C37 (as claimed): the lock a call created is gone when the call is over,
\* whether func returned or raised, and a call that created no lock has
\* removed no lock.
C37_RemovesOnlyOwnLock ==
    \A c \in Callers :
        Finished(c) =>
            /\ \A row \in process_locks : row.pk # lock_calls[c].lock
            /\ lock_calls[c].lock = 0 => lock_calls[c].removed = {}

\* C37 (amended): the lock a call created is gone when the call is over,
\* whether func returned or raised; a call that found the lock taken has
\* removed no lock; and any other lock a call has removed is the stale one
\* it found when it tested the lock.
C37_RemovesOwnOrStaleLock ==
    \A c \in Callers :
        /\ Finished(c) =>
                \A row \in process_locks : row.pk # lock_calls[c].lock
        /\ lock_calls[c].pc = "skipped" => lock_calls[c].removed = {}
        /\ \A gone \in lock_calls[c].removed :
                \/ gone.pk = lock_calls[c].lock
                \/ gone.stale /\ gone.pk = lock_calls[c].seen

\* A call whose func raised has removed its lock, and a call that created no
\* lock has removed a stale one.
C37_Witness ==
    \E c, d \in Callers :
        /\ lock_calls[c].pc = "done"
        /\ lock_calls[c].lock # 0
        /\ ~lock_calls[c].success
        /\ \E gone \in lock_calls[c].removed : gone.pk = lock_calls[c].lock
        /\ lock_calls[d].pc = "done"
        /\ lock_calls[d].lock = 0
        /\ lock_calls[d].removed # {}

-----------------------------------------------------------------------------
\* Properties of the subscription state.

\* The state get_user_subscription_state would report now.
CurrentState == subscription_to_state(subscription, sub_now)

\* line 267, "trial -> subscribed <-> unsubscribed OR expired".
DocumentedTransition(from, to) ==
    \/ from = to
    \/ from = "trial" /\ to = "subscribed"
    \/ from = "subscribed" /\ to = "unsubscribed"
    \/ from = "unsubscribed" /\ to = "subscribed"
    \/ to = "expired"

\* C38: once the user has a subscription, a call of set_user_subscription
\* or the passage of a day changes the reported state only from trial to
\* subscribed, between subscribed and unsubscribed, or into expired.
C38_DocumentedTransitions ==
    [][subscription # NoSubscription =>
            DocumentedTransition(CurrentState, CurrentState')]_vars

\* C39: a trial subscription is reported as "trial" while at most 7 days
\* have passed since its creation and as "expired" after that.
C39_TrialLastsSevenDays ==
    subscription.type = "trial" =>
        CurrentState =
            IF sub_now - subscription.created_at > DocumentedTrialDays
            THEN "expired" ELSE "trial"

====
